---------------------------- MODULE Spec2Model ----------------------------
(***************************************************************************)
(* A model of the scraping and analysis scripts of the repository          *)
(* exploratory-data-analyses.  The scripts are independent programs; each  *)
(* is modelled by its own group of variables and its own specification.    *)
(* While one script runs, the variables of the other scripts stay idle.    *)
(*                                                                         *)
(* A Python str is modelled as a sequence of one-character strings, so     *)
(* that substring tests, case folding and regular expressions are computed *)
(* character by character as the interpreter computes them.                *)
(***************************************************************************)
EXTENDS Integers, Sequences, FiniteSets, TLC

VARIABLES
    \* scripts/scrape_biographical_info.py and its copies: is_person_page
    p_url,          \* the url argument
    p_verdict,      \* what each copy of is_person_page returned, or None
    \* chiefs-of-staff-birthplaces/scrape_commanders.py: main
    c_choice,       \* the answer typed at the prompt
    c_pc,           \* where main stands
    c_list,         \* which list scrape_commanders is working on
    c_i,            \* enumerate() index of the commander being processed
    c_status,       \* result["status"] of the last scrape_birthplace
    c_results,      \* len(results) of the running scrape_commanders
    c_written,      \* the CSV files written so far
    c_log,          \* the HTTP requests and sleeps of the run, in order
    \* scrape_turkish_officials.py / rescrape_prime_ministers.py: row filter
    x_row,          \* a table row: the texts of its cells and its person link
    x_excluded,     \* whether each script left the row out of data, or None
    \* scrape_turkish_officials.py: header de-duplication and save_to_sqlite
    k_headers,      \* the header texts of a wikitable's first row
    k_link_cell,    \* the cell in which the row's person link was found (0: none)
    k_pc,           \* headers read, DataFrame built, columns renamed
    k_columns,      \* df.columns
    k_new_cols,     \* new_cols as assigned to df_copy.columns
    \* scripts/calculate_appointment_ages.py: main
    a_pc,           \* where main stands
    a_tables,       \* the tables main has still to go through, sorted
    a_has_date_col, \* calculate_ages_for_table found a start date column
    a_rows,         \* the rows of the current table read so far
    a_ages,         \* ages of the running calculate_ages_for_table
    a_all_results,  \* all_results: position, n, avg (as sum and n), ages
    a_lines,        \* the lines of the statistics table printed so far
    \* scripts/scrape_biographical_info.py: extract_birth_info
    b_soup,         \* the soup argument: None or a parsed page
    b_info,         \* the birth_info returned, or None before the call
    \* scripts/scrape_biographical_info.py: main and process_table
    s_pc,           \* where main stands
    s_tables,       \* the tables main has still to go through
    s_table,        \* table_name of the running process_table
    s_df,           \* df of the running process_table
    s_idx,          \* the row the loop over df.iterrows() is at
    s_processed_urls, \* processed_urls, shared by all process_table calls
    s_requests,     \* the urls fetch_person_page has requested, in order
    s_soups,        \* per requested url, what fetch_person_page returned
    s_counts,       \* new_people, cached_people, skipped of the running call
    s_db,           \* the tables written back by to_sql
    \* chiefs-of-staff-birthplaces/fix_missing_birthplaces.py: main, fix_csv_file
    f_pc,           \* where main and fix_csv_file stand
    f_csv_files,    \* the csv files main has still to go through
    f_files,        \* the files on disk: path to rows
    f_original,     \* the rows of the csv file when fix_csv_file was called
    f_df,           \* df of the running fix_csv_file
    f_todo,         \* the indexes df[missing_mask].iterrows() has still to yield
    f_updated_count,\* updated_count
    \* create_birthplace_map.py, analyze_birthplaces.py: the city functions
    n_birthplace,   \* the birth_place text read from the database
    n_called,       \* the functions that have been applied to it
    n_normalized,   \* what normalize_city returned
    n_cleaned,      \* what clean_city_name returned
    \* count_unique_people.py
    u_pc,           \* position in the script
    u_db,           \* table name -> its wikipedia_link column
    u_todo,         \* sorted tables still to count
    u_total_records,\* total_records
    u_total_unique, \* total_unique
    u_summary,      \* the printed summary
    \* merge_all_data.py
    m_pc,           \* position in main
    m_files,        \* path -> rows of the csv file (column name -> cell text)
    m_year_reading, \* how the installed pandas reads a year cell as a date
    m_merged,       \* merged_df
    \* scripts/test_biographical_scraper.py against scrape_biographical_info.py
    t_soup,         \* the page both functions are given
    t_info,         \* what the test script's extract_birth_info returned
    t_scraper_info  \* what the scraper's extract_birth_info returned

\* Python's None and a present value: an optional value is a sequence of
\* length 0 or 1.
None == <<>>
Some(v) == <<v>>

\* A local name for a value: With(e, LAMBDA v : body) is body with v = e.
With(value, In(_)) == In(value)

\* min(ks) of a non-empty set of numbers
Min(ks) == CHOOSE k \in ks : \A j \in ks : k <= j

-----------------------------------------------------------------------------
(* Characters and strings *)

Digits == {"0", "1", "2", "3", "4", "5", "6", "7", "8", "9"}

AsciiLower ==
    {"a", "b", "c", "d", "e", "f", "g", "h", "i", "j", "k", "l", "m",
     "n", "o", "p", "q", "r", "s", "t", "u", "v", "w", "x", "y", "z"}

AsciiUpper ==
    {"A", "B", "C", "D", "E", "F", "G", "H", "I", "J", "K", "L", "M",
     "N", "O", "P", "Q", "R", "S", "T", "U", "V", "W", "X", "Y", "Z"}

\* Characters outside ASCII that occur in the program's literals and data,
\* each named by its code point.
c_cedilla  == "U+00E7"
C_cedilla  == "U+00C7"
o_umlaut   == "U+00F6"
O_umlaut   == "U+00D6"
u_umlaut   == "U+00FC"
U_umlaut   == "U+00DC"
g_breve    == "U+011F"
G_breve    == "U+011E"
s_cedilla  == "U+015F"
S_cedilla  == "U+015E"
i_dotless  == "U+0131"
I_dotted   == "U+0130"
dot_above  == "U+0307"
a_circ     == "U+00E2"
A_circ     == "U+00C2"
a_tilde    == "U+00E3"
A_tilde    == "U+00C3"
cent_sign  == "U+00A2"
sect_sign  == "U+00A7"

OtherLower ==
    {c_cedilla, o_umlaut, u_umlaut, g_breve, s_cedilla, i_dotless, a_circ, a_tilde}
OtherUpper ==
    {C_cedilla, O_umlaut, U_umlaut, G_breve, S_cedilla, I_dotted, A_circ, A_tilde}

Whitespace == {" ", "\n", "\t"}

IsDigit(c) == c \in Digits
IsSpace(c) == c \in Whitespace
\* \w of a str pattern: letters, digits and the underscore.
IsWord(c) ==
    c \in Digits \cup AsciiLower \cup AsciiUpper \cup OtherLower \cup OtherUpper \cup {"_"}

\* str.lower() on one character (characters without a case map to themselves).
LowerChar(c) ==
    CASE c = "A" -> "a" [] c = "B" -> "b" [] c = "C" -> "c" [] c = "D" -> "d"
      [] c = "E" -> "e" [] c = "F" -> "f" [] c = "G" -> "g" [] c = "H" -> "h"
      [] c = "I" -> "i" [] c = "J" -> "j" [] c = "K" -> "k" [] c = "L" -> "l"
      [] c = "M" -> "m" [] c = "N" -> "n" [] c = "O" -> "o" [] c = "P" -> "p"
      [] c = "Q" -> "q" [] c = "R" -> "r" [] c = "S" -> "s" [] c = "T" -> "t"
      [] c = "U" -> "u" [] c = "V" -> "v" [] c = "W" -> "w" [] c = "X" -> "x"
      [] c = "Y" -> "y" [] c = "Z" -> "z"
      [] c = C_cedilla -> c_cedilla [] c = O_umlaut -> o_umlaut
      [] c = U_umlaut -> u_umlaut [] c = G_breve -> g_breve
      [] c = S_cedilla -> s_cedilla [] c = A_circ -> a_circ
      [] c = A_tilde -> a_tilde
      [] OTHER -> c

\* pattern occurs in s starting at index k
OccursAt(s, pattern, k) ==
    /\ k >= 1
    /\ k + Len(pattern) - 1 <= Len(s)
    /\ \A j \in 1..Len(pattern) : s[k + j - 1] = pattern[j]

\* Python's  pattern in s  for two strs
Contains(s, pattern) ==
    \E k \in 1..(Len(s) - Len(pattern) + 1) : OccursAt(s, pattern, k)

RECURSIVE Concat(_)
\* ''.join(parts)
Concat(parts) ==
    IF parts = <<>> THEN <<>> ELSE Head(parts) \o Concat(Tail(parts))

\* str.lower(): the capital dotted I becomes an i followed by a combining dot
Lower(s) ==
    Concat([k \in 1..Len(s) |->
        IF s[k] = I_dotted THEN <<"i", dot_above>> ELSE <<LowerChar(s[k])>>])

\* str.upper() on one character that has a lower case
UpperChar(c) ==
    CASE c = "a" -> "A" [] c = "b" -> "B" [] c = "c" -> "C" [] c = "d" -> "D"
      [] c = "e" -> "E" [] c = "f" -> "F" [] c = "g" -> "G" [] c = "h" -> "H"
      [] c = "i" -> "I" [] c = "j" -> "J" [] c = "k" -> "K" [] c = "l" -> "L"
      [] c = "m" -> "M" [] c = "n" -> "N" [] c = "o" -> "O" [] c = "p" -> "P"
      [] c = "q" -> "Q" [] c = "r" -> "R" [] c = "s" -> "S" [] c = "t" -> "T"
      [] c = "u" -> "U" [] c = "v" -> "V" [] c = "w" -> "W" [] c = "x" -> "X"
      [] c = "y" -> "Y" [] c = "z" -> "Z" [] c = c_cedilla -> C_cedilla [] c = o_umlaut -> O_umlaut
      [] c = u_umlaut -> U_umlaut [] c = g_breve -> G_breve [] c = s_cedilla -> S_cedilla [] c = i_dotless -> "I"
      [] c = a_circ -> A_circ [] c = a_tilde -> A_tilde
      [] OTHER -> c

\* a character with an upper and a lower case
IsCased(c) == c \in AsciiLower \cup AsciiUpper \cup OtherLower \cup OtherUpper

\* str.title(): a cased character is put in upper case when the character
\* before it is not cased (or there is none) and in lower case otherwise
Title(s) ==
    Concat([k \in 1..Len(s) |->
        IF ~IsCased(s[k]) THEN <<s[k]>>
        ELSE IF k > 1 /\ IsCased(s[k - 1]) THEN Lower(<<s[k]>>)
        ELSE <<UpperChar(s[k])>>])

RECURSIVE Replace(_, _, _)
\* s.replace(old, new) for a non-empty old: every occurrence, left to right
Replace(s, old, new) ==
    IF Len(s) < Len(old) THEN s
    ELSE IF OccursAt(s, old, 1)
    THEN new \o Replace(SubSeq(s, Len(old) + 1, Len(s)), old, new)
    ELSE <<s[1]>> \o Replace(Tail(s), old, new)

-----------------------------------------------------------------------------
(* Numbers in strings, str.strip, and the year patterns *)

DigitValue(c) ==
    CASE c = "0" -> 0 [] c = "1" -> 1 [] c = "2" -> 2 [] c = "3" -> 3
      [] c = "4" -> 4 [] c = "5" -> 5 [] c = "6" -> 6 [] c = "7" -> 7
      [] c = "8" -> 8 [] c = "9" -> 9

RECURSIVE DigitsValue(_)
\* the number a non-empty string of digits denotes
DigitsValue(s) ==
    IF Len(s) = 1 THEN DigitValue(s[1])
    ELSE 10 * DigitsValue(SubSeq(s, 1, Len(s) - 1)) + DigitValue(s[Len(s)])

\* s without its leading and trailing characters from chars: s.strip(chars)
StripChars(s, chars) ==
    LET keep == { k \in 1..Len(s) : s[k] \notin chars }
    IN  IF keep = {} THEN <<>>
        ELSE SubSeq(s, CHOOSE a \in keep : \A k \in keep : a <= k,
                       CHOOSE b \in keep : \A k \in keep : b >= k)

\* s.strip()
Strip(s) == StripChars(s, Whitespace)

\* int(s) for a str: surrounding whitespace and one sign are accepted, then
\* digits, with single underscores between digits.  None stands for the
\* ValueError.
IntOfStr(s) ==
    LET Unsigned(body) ==
            IF /\ body # <<>>
               /\ \A k \in 1..Len(body) : IsDigit(body[k]) \/ body[k] = "_"
               /\ IsDigit(body[1]) /\ IsDigit(body[Len(body)])
               /\ \A k \in 1..(Len(body) - 1) : ~(body[k] = "_" /\ body[k + 1] = "_")
            THEN Some(DigitsValue(SelectSeq(body, IsDigit)))
            ELSE None
    IN  With(Strip(s), LAMBDA t :
            IF t # <<>> /\ t[1] = "-"
            THEN With(Unsigned(Tail(t)), LAMBDA v :
                     IF v = None THEN None ELSE Some(0 - v[1]))
            ELSE IF t # <<>> /\ t[1] = "+" THEN Unsigned(Tail(t))
            ELSE Unsigned(t))

\* \b between s[k - 1] and s[k]
WordBoundary(s, k) ==
    LET before == k > 1 /\ k - 1 <= Len(s) /\ IsWord(s[k - 1])
        after == k >= 1 /\ k <= Len(s) /\ IsWord(s[k])
    IN  before # after

\* Four digits at k that begin with one of the prefixes, with \b on both
\* sides: a match of \b(<prefix>\d...)\b at k.
YearAt(s, k, prefixes) ==
    /\ k + 3 <= Len(s)
    /\ \A j \in k..(k + 3) : IsDigit(s[j])
    /\ \E prefix \in prefixes : OccursAt(s, prefix, k)
    /\ WordBoundary(s, k)
    /\ WordBoundary(s, k + 4)

\* re.search of such a pattern: None, or the text of the leftmost match
YearSearch(s, prefixes) ==
    With({ k \in 1..Len(s) : YearAt(s, k, prefixes) }, LAMBDA hits :
        IF hits = {} THEN None
        ELSE Some(SubSeq(s, Min(hits), Min(hits) + 3)))

-----------------------------------------------------------------------------
(* Variable groups.  A script that is not running keeps its idle state. *)

personVars == <<p_url, p_verdict>>
cmdVars == <<c_choice, c_pc, c_list, c_i, c_status, c_results, c_written, c_log>>
rowVars == <<x_row, x_excluded>>
colVars == <<k_headers, k_link_cell, k_pc, k_columns, k_new_cols>>

ageVars == <<a_pc, a_tables, a_has_date_col, a_rows, a_ages, a_all_results, a_lines>>

birthVars == <<b_soup, b_info>>
scrapeVars ==
    <<s_pc, s_tables, s_table, s_df, s_idx, s_processed_urls, s_requests, s_soups,
      s_counts, s_db>>

fixVars == <<f_pc, f_csv_files, f_files, f_original, f_df, f_todo, f_updated_count>>

cityVars == <<n_birthplace, n_called, n_normalized, n_cleaned>>

uniqVars == <<u_pc, u_db, u_todo, u_total_records, u_total_unique, u_summary>>

mergeVars == <<m_pc, m_files, m_year_reading, m_merged>>

testVars == <<t_soup, t_info, t_scraper_info>>

vars ==
    <<personVars, cmdVars, rowVars, colVars, ageVars, birthVars, scrapeVars, fixVars, cityVars, uniqVars, mergeVars, testVars>>

PersonIdle == p_url = <<>> /\ p_verdict = None
CmdIdle ==
    /\ c_choice = "" /\ c_pc = "idle" /\ c_list = "" /\ c_i = 0
    /\ c_status = "" /\ c_results = 0 /\ c_written = {} /\ c_log = <<>>
RowIdle == x_row = <<>> /\ x_excluded = None
ColIdle ==
    /\ k_headers = <<>> /\ k_link_cell = 0 /\ k_pc = "idle"
    /\ k_columns = <<>> /\ k_new_cols = <<>>
AgeIdle ==
    /\ a_pc = "idle" /\ a_tables = <<>> /\ a_has_date_col = FALSE /\ a_rows = <<>>
    /\ a_ages = <<>> /\ a_all_results = <<>> /\ a_lines = <<>>
BirthIdle == b_soup = None /\ b_info = None
ScrapeIdle ==
    /\ s_pc = "idle" /\ s_tables = <<>> /\ s_table = "" /\ s_df = <<>> /\ s_idx = 0
    /\ s_processed_urls = {} /\ s_requests = <<>> /\ s_soups = <<>>
    /\ s_counts = <<>> /\ s_db = <<>>

FixIdle == f_pc = "idle" /\ f_csv_files = <<>> /\ f_files = <<>> /\ f_original = <<>> /\ f_df = <<>> /\ f_todo = <<>> /\ f_updated_count = 0

CityIdle == n_birthplace = <<>> /\ n_called = {} /\ n_normalized = None /\ n_cleaned = <<>>

UniqIdle == u_pc = "idle" /\ u_db = <<>> /\ u_todo = <<>> /\ u_total_records = 0 /\ u_total_unique = 0 /\ u_summary = None

MergeIdle == m_pc = "idle" /\ m_files = <<>> /\ m_year_reading = "NaT" /\ m_merged = <<>>

TestIdle == t_soup = None /\ t_info = None /\ t_scraper_info = None

\* what a running script leaves alone, and the idle state of the others
notPerson ==
    <<cmdVars, rowVars, colVars, ageVars, birthVars, scrapeVars, fixVars, cityVars, uniqVars, mergeVars, testVars>>
notCmd ==
    <<personVars, rowVars, colVars, ageVars, birthVars, scrapeVars, fixVars, cityVars, uniqVars, mergeVars, testVars>>
notRow ==
    <<personVars, cmdVars, colVars, ageVars, birthVars, scrapeVars, fixVars, cityVars, uniqVars, mergeVars, testVars>>
notCol ==
    <<personVars, cmdVars, rowVars, ageVars, birthVars, scrapeVars, fixVars, cityVars, uniqVars, mergeVars, testVars>>
notAge ==
    <<personVars, cmdVars, rowVars, colVars, birthVars, scrapeVars, fixVars, cityVars, uniqVars, mergeVars, testVars>>
notBirth ==
    <<personVars, cmdVars, rowVars, colVars, ageVars, scrapeVars, fixVars, cityVars, uniqVars, mergeVars, testVars>>
notScrape ==
    <<personVars, cmdVars, rowVars, colVars, ageVars, birthVars, fixVars, cityVars, uniqVars, mergeVars, testVars>>
notFix ==
    <<personVars, cmdVars, rowVars, colVars, ageVars, birthVars, scrapeVars, cityVars, uniqVars, mergeVars, testVars>>
notCity ==
    <<personVars, cmdVars, rowVars, colVars, ageVars, birthVars, scrapeVars, fixVars, uniqVars, mergeVars, testVars>>
notUniq ==
    <<personVars, cmdVars, rowVars, colVars, ageVars, birthVars, scrapeVars, fixVars, cityVars, mergeVars, testVars>>
notMerge ==
    <<personVars, cmdVars, rowVars, colVars, ageVars, birthVars, scrapeVars, fixVars, cityVars, uniqVars, testVars>>
notTest ==
    <<personVars, cmdVars, rowVars, colVars, ageVars, birthVars, scrapeVars, fixVars, cityVars, uniqVars, mergeVars>>

IdleButPerson ==
    CmdIdle /\ RowIdle /\ ColIdle /\ AgeIdle /\ BirthIdle /\ ScrapeIdle /\ FixIdle /\ CityIdle /\ UniqIdle /\ MergeIdle /\ TestIdle
IdleButCmd ==
    PersonIdle /\ RowIdle /\ ColIdle /\ AgeIdle /\ BirthIdle /\ ScrapeIdle /\ FixIdle /\ CityIdle /\ UniqIdle /\ MergeIdle /\ TestIdle
IdleButRow ==
    PersonIdle /\ CmdIdle /\ ColIdle /\ AgeIdle /\ BirthIdle /\ ScrapeIdle /\ FixIdle /\ CityIdle /\ UniqIdle /\ MergeIdle /\ TestIdle
IdleButCol ==
    PersonIdle /\ CmdIdle /\ RowIdle /\ AgeIdle /\ BirthIdle /\ ScrapeIdle /\ FixIdle /\ CityIdle /\ UniqIdle /\ MergeIdle /\ TestIdle
IdleButAge ==
    PersonIdle /\ CmdIdle /\ RowIdle /\ ColIdle /\ BirthIdle /\ ScrapeIdle /\ FixIdle /\ CityIdle /\ UniqIdle /\ MergeIdle /\ TestIdle
IdleButBirth ==
    PersonIdle /\ CmdIdle /\ RowIdle /\ ColIdle /\ AgeIdle /\ ScrapeIdle /\ FixIdle /\ CityIdle /\ UniqIdle /\ MergeIdle /\ TestIdle
IdleButScrape ==
    PersonIdle /\ CmdIdle /\ RowIdle /\ ColIdle /\ AgeIdle /\ BirthIdle /\ FixIdle /\ CityIdle /\ UniqIdle /\ MergeIdle /\ TestIdle
IdleButFix ==
    PersonIdle /\ CmdIdle /\ RowIdle /\ ColIdle /\ AgeIdle /\ BirthIdle /\ ScrapeIdle /\ CityIdle /\ UniqIdle /\ MergeIdle /\ TestIdle
IdleButCity ==
    PersonIdle /\ CmdIdle /\ RowIdle /\ ColIdle /\ AgeIdle /\ BirthIdle /\ ScrapeIdle /\ FixIdle /\ UniqIdle /\ MergeIdle /\ TestIdle
IdleButUniq ==
    PersonIdle /\ CmdIdle /\ RowIdle /\ ColIdle /\ AgeIdle /\ BirthIdle /\ ScrapeIdle /\ FixIdle /\ CityIdle /\ MergeIdle /\ TestIdle
IdleButMerge ==
    PersonIdle /\ CmdIdle /\ RowIdle /\ ColIdle /\ AgeIdle /\ BirthIdle /\ ScrapeIdle /\ FixIdle /\ CityIdle /\ UniqIdle /\ TestIdle
IdleButTest ==
    PersonIdle /\ CmdIdle /\ RowIdle /\ ColIdle /\ AgeIdle /\ BirthIdle /\ ScrapeIdle /\ FixIdle /\ CityIdle /\ UniqIdle /\ MergeIdle

-----------------------------------------------------------------------------
(* is_person_page: scripts/scrape_biographical_info.py and its three copies *)

WIKIPEDIA_ORG == <<"w", "i", "k", "i", "p", "e", "d", "i", "a", ".", "o", "r", "g">>

pat_Dosya      == <<"D", "o", "s", "y", "a", ":">>
pat_File       == <<"F", "i", "l", "e", ":">>
pat_listesi    == <<"l", "i", "s", "t", "e", "s", "i">>
pat_list       == <<"_", "l", "i", "s", "t">>
pat_genel_secim == <<"g", "e", "n", "e", "l", "_", "s", "e", c_cedilla, "i", "m">>
pat_secimleri  == <<"s", "e", c_cedilla, "i", "m", "l", "e", "r", "i">>
pat_milletvekil == <<"m", "i", "l", "l", "e", "t", "v", "e", "k", "i", "l">>
pat_donem      == <<"d", o_umlaut, "n", "e", "m">>
pat_Kategori   == <<"K", "a", "t", "e", "g", "o", "r", "i", ":">>
pat_Category   == <<"C", "a", "t", "e", "g", "o", "r", "y", ":">>
pat_Vikipedi   == <<"V", "i", "k", "i", "p", "e", "d", "i", ":">>
pat_Wikipedia  == <<"W", "i", "k", "i", "p", "e", "d", "i", "a", ":">>

\* exclude_patterns of scrape_biographical_info.is_person_page
exclude_patterns ==
    <<pat_Dosya, pat_File, pat_listesi, pat_list, pat_genel_secim, pat_secimleri,
      pat_milletvekil, pat_donem, pat_Kategori, pat_Category,
      pat_Vikipedi, pat_Wikipedia>>

\* exclude_patterns of analyze_wiki_links.is_person_page
exclude_patterns_wiki_links ==
    <<pat_Dosya, pat_File, pat_listesi, pat_list, pat_genel_secim,
      pat_milletvekil, pat_donem, pat_Kategori, pat_Category,
      pat_Vikipedi, pat_Wikipedia>>

\* exclude_patterns of analyze_missing_links.is_person_page
exclude_patterns_missing_links ==
    <<pat_Dosya, pat_File, pat_listesi, pat_list, pat_genel_secim,
      pat_milletvekil, pat_donem, pat_Kategori, pat_Category,
      pat_Vikipedi, pat_Wikipedia>>

\* exclude_patterns of analyze_cross_position_unique.is_person_page
exclude_patterns_cross_position ==
    <<pat_Dosya, pat_File, pat_listesi, pat_list, pat_genel_secim,
      pat_milletvekil, pat_donem, pat_Kategori, pat_Category,
      pat_Vikipedi, pat_Wikipedia>>

\* for pattern in patterns: if pattern in url: return False
AnyPatternIn(patterns, url) ==
    \E k \in 1..Len(patterns) : Contains(url, patterns[k])

\* The scraper's test with 'seçimleri' left out of its list.
is_person_page_without_secimleri(url) ==
    IF url = <<>> \/ ~Contains(url, WIKIPEDIA_ORG)
    THEN FALSE
    ELSE ~AnyPatternIn(exclude_patterns_cross_position, url)

is_person_page(url) ==
    IF url = <<>> \/ ~Contains(url, WIKIPEDIA_ORG)
    THEN FALSE
    ELSE ~AnyPatternIn(exclude_patterns, url)

is_person_page_wiki_links(url) ==
    IF url = <<>> \/ ~Contains(url, WIKIPEDIA_ORG)
    THEN FALSE
    ELSE ~AnyPatternIn(exclude_patterns_wiki_links, url)

is_person_page_missing_links(url) ==
    IF url = <<>> \/ ~Contains(url, WIKIPEDIA_ORG)
    THEN FALSE
    ELSE ~AnyPatternIn(exclude_patterns_missing_links, url)

is_person_page_cross_position(url) ==
    IF url = <<>> \/ ~Contains(url, WIKIPEDIA_ORG)
    THEN FALSE
    ELSE ~AnyPatternIn(exclude_patterns_cross_position, url)

\* The urls is_person_page is called with: a prefix followed by up to MaxUrlTokens
\* tokens.  The tokens are the listed patterns, spellings that differ from a
\* pattern in letter case or in one letter, and a plain name.
MaxUrlTokens == 2

UrlPrefixes ==
    { <<>>,
      <<"h", "t", "t", "p", "s", ":", "/", "/", "t", "r", ".">> \o WIKIPEDIA_ORG
          \o <<"/", "w", "i", "k", "i", "/">>,
      <<"h", "t", "t", "p", "s", ":", "/", "/", "e", "x", ".", "c", "o", "m", "/">> }

UrlTokens ==
    { exclude_patterns[k] : k \in 1..Len(exclude_patterns) } \cup
    { <<"f", "i", "l", "e", ":">>,
      <<"L", "i", "s", "t", "e", "s", "i">>,
      <<"s", "e", "c", "i", "m", "l", "e", "r", "i">>,
      <<"D", o_umlaut, "n", "e", "m">>,
      <<"A", "h", "m", "e", "t">> }

RECURSIVE TokenStrings(_)
TokenStrings(n) ==
    IF n = 0 THEN { <<>> }
    ELSE LET shorter == TokenStrings(n - 1)
         IN  shorter \cup { s \o t : s \in shorter, t \in UrlTokens }

UrlInputs == { pre \o body : pre \in UrlPrefixes, body \in TokenStrings(MaxUrlTokens) }

PersonInit == p_url \in UrlInputs /\ p_verdict = None

\* One call of each copy of is_person_page on the same url.
CheckUrl ==
    /\ p_verdict = None
    /\ p_verdict' = Some(
                    [scrape         |-> is_person_page(p_url),
                     wiki_links     |-> is_person_page_wiki_links(p_url),
                     missing_links  |-> is_person_page_missing_links(p_url),
                     cross_position |-> is_person_page_cross_position(p_url)])
    /\ UNCHANGED <<p_url, notPerson>>

InitPerson == PersonInit /\ IdleButPerson
NextPerson == CheckUrl
SpecPerson == InitPerson /\ [][NextPerson]_vars

\* The claim's own reading of "contains": some slice of the url equals the text.
HasText(url, text) ==
    \E a \in 1..Len(url) : \E b \in a..Len(url) : SubSeq(url, a, b) = text

ListedExclusions ==
    { pat_Dosya, pat_File, pat_listesi, pat_list, pat_genel_secim, pat_secimleri,
      pat_milletvekil, pat_donem, pat_Kategori, pat_Category, pat_Vikipedi,
      pat_Wikipedia }

\* C3: is_person_page of the scraper returns False when the url is empty, lacks
\* 'wikipedia.org' or contains one of the listed exclusion substrings, and
\* returns True for every other url.
C3_PersonPageVerdict ==
    p_verdict # None =>
        ( p_verdict[1].scrape = FALSE
          <=> \/ Len(p_url) = 0
              \/ ~HasText(p_url, WIKIPEDIA_ORG)
              \/ \E text \in ListedExclusions : HasText(p_url, text) )

\* C3 witness: a wikipedia.org url rejected only because it holds 'seçimleri',
\* the one pattern the copies lack.
C3_Witness ==
    /\ p_verdict # None
    /\ p_verdict[1].scrape = FALSE
    /\ HasText(p_url, WIKIPEDIA_ORG)
    /\ HasText(p_url, pat_secimleri)
    /\ \A text \in ListedExclusions \ {pat_secimleri} : ~HasText(p_url, text)

\* C4: every copy of is_person_page gives the scraper's verdict on every url.
C4_CopiesAgree ==
    p_verdict # None =>
        /\ p_verdict[1].wiki_links = p_verdict[1].scrape
        /\ p_verdict[1].missing_links = p_verdict[1].scrape
        /\ p_verdict[1].cross_position = p_verdict[1].scrape

-----------------------------------------------------------------------------
(* chiefs-of-staff-birthplaces/scrape_commanders.py: main *)

SLEEP_TIME == 2

\* len(NAVAL_COMMANDERS) and len(AIR_FORCE_COMMANDERS)
NavalCount == 27
AirForceCount == 34

CommanderCount(list) == IF list = "naval" THEN NavalCount ELSE AirForceCount

\* input(...).strip(): the three valid answers and an invalid one
Choices == {"1", "2", "3", "x"}

\* result["status"] as scrape_birthplace leaves it: the page gave a
\* birthplace, gave none, or requests raised a RequestException
Statuses == {"found", "not_found", "error"}

CmdInit ==
    /\ c_choice = "" /\ c_pc = "prompt" /\ c_list = "" /\ c_i = 0
    /\ c_status = "" /\ c_results = 0 /\ c_written = {} /\ c_log = <<>>

\* main reads the choice and enters the first scrape_commanders call, or
\* prints "Invalid choice" and returns.
Choose ==
    /\ c_pc = "prompt"
    /\ \E choice \in Choices :
        /\ c_choice' = choice
        /\ IF choice \in {"1", "3"}
           THEN c_list' = "naval" /\ c_i' = 1 /\ c_pc' = "loop"
           ELSE IF choice = "2"
           THEN c_list' = "air_force" /\ c_i' = 1 /\ c_pc' = "loop"
           ELSE c_list' = "" /\ c_i' = 0 /\ c_pc' = "done"
    /\ UNCHANGED <<c_status, c_results, c_written, c_log, notCmd>>

\* scrape_birthplace(commander["name"]): one requests.get, then
\* results.append(result).
ScrapeBirthplace ==
    /\ c_pc = "loop"
    /\ \E status \in Statuses : c_status' = status
    /\ c_log' = Append(c_log, <<"request", c_list, c_i>>)
    /\ c_results' = c_results + 1
    /\ c_pc' = "appended"
    /\ UNCHANGED <<c_choice, c_list, c_i, c_written, notCmd>>

\* if i < len(commanders): time.sleep(SLEEP_TIME); then the next iteration
SleepBetween ==
    /\ c_pc = "appended"
    /\ c_i < CommanderCount(c_list)
    /\ c_log' = Append(c_log, <<"sleep", "", SLEEP_TIME>>)
    /\ c_i' = c_i + 1
    /\ c_pc' = "loop"
    /\ UNCHANGED <<c_choice, c_list, c_status, c_results, c_written, notCmd>>

\* After the last commander no sleep is made: the loop ends, the CSV is
\* written and scrape_commanders returns.  With choice 3 main then calls
\* scrape_commanders for the air force list.
FinishList ==
    /\ c_pc = "appended"
    /\ c_i >= CommanderCount(c_list)
    /\ c_written' = c_written \cup {c_list}
    /\ IF c_choice = "3" /\ c_list = "naval"
       THEN c_list' = "air_force" /\ c_i' = 1 /\ c_results' = 0 /\ c_pc' = "loop"
       ELSE c_pc' = "done" /\ UNCHANGED <<c_list, c_i, c_results>>
    /\ UNCHANGED <<c_choice, c_status, c_log, notCmd>>

InitCmd == CmdInit /\ IdleButCmd
NextCmd == Choose \/ ScrapeBirthplace \/ SleepBetween \/ FinishList
SpecCmd == InitCmd /\ [][NextCmd]_vars

\* C6: in any run of main a sleep of SLEEP_TIME seconds separates every two
\* consecutive HTTP requests.
C6_SleepBetweenRequests ==
    \A k \in 1..(Len(c_log) - 1) :
        c_log[k][1] = "request" =>
            /\ c_log[k + 1][1] = "sleep"
            /\ c_log[k + 1][3] = SLEEP_TIME

-----------------------------------------------------------------------------
(* Dropping acting/interim rows: should_exclude_row of                     *)
(* scripts/scrape_turkish_officials.py and the inline check of             *)
(* scripts/rescrape_prime_ministers.py                                     *)

kw_vekaleten == <<"v", "e", "k", "a", "l", "e", "t", "e", "n">>
kw_vekil     == <<"v", "e", "k", "i", "l">>
\* 'vekâleten' and 'geçici' as rescrape_prime_ministers.py spells them
kw_vekaleten_circ == <<"v", "e", "k", a_circ, "l", "e", "t", "e", "n">>
kw_gecici    == <<"g", "e", c_cedilla, "i", "c", "i">>
\* the same two keywords as the source text of scrape_turkish_officials.py
\* holds them: each non-ASCII letter stands as two characters, U+00C3
\* followed by U+00A2 or U+00A7
kw_vekaleten_officials ==
    <<"v", "e", "k", A_tilde, cent_sign, "l", "e", "t", "e", "n">>
kw_gecici_officials == <<"g", "e", A_tilde, sect_sign, "i", "c", "i">>

\* exclude_keywords of should_exclude_row
exclude_keywords ==
    <<kw_vekaleten, kw_vekaleten_officials, kw_vekil, kw_gecici_officials>>

\* the keyword list of the inline check in scrape_prime_ministers
exclude_keywords_rescrape ==
    <<kw_gecici, kw_vekaleten, kw_vekil, kw_vekaleten_circ>>

\* any(keyword in value_lower for keyword in keywords)
AnyKeywordIn(keywords, value_lower) ==
    \E k \in 1..Len(keywords) : Contains(value_lower, keywords[k])

\* should_exclude_row(row_data); every value of row_data is a str
should_exclude_row(row_data) ==
    \E k \in 1..Len(row_data) : AnyKeywordIn(exclude_keywords, Lower(row_data[k]))

\* the loop over row_data.values() that sets skip
rescrape_skip(row_data) ==
    \E k \in 1..Len(row_data) :
        AnyKeywordIn(exclude_keywords_rescrape, Lower(row_data[k]))

\* Cell texts: a keyword in some letter case, alone or inside a longer text.
CellWords ==
    { kw_vekaleten, kw_vekil, kw_vekaleten_circ, kw_gecici,
      kw_vekaleten_officials, kw_gecici_officials,
      <<"V", "e", "k", "i", "l">>,
      <<"G", "E", C_cedilla, "i", "c", "i">>,
      <<"V", "e", "k", A_circ, "l", "e", "t", "e", "n">>,
      <<"g", "e", "c", "i", "c", "i">>,
      <<"A", "h", "m", "e", "t">>,
      <<"1", "9", "2", "3">> }

CellTexts ==
    CellWords \cup { <<"A", "l", "i", " ", "(">> \o w \o <<")">> : w \in CellWords }

\* the number of cells of a table row
MaxCells == 2

POSITION_VALUE ==
    <<"P", "r", "i", "m", "e", " ", "M", "i", "n", "i", "s", "t", "e", "r">>

\* 'https://tr.wikipedia.org', put before the href of a person link
WIKIPEDIA_TR == <<"h", "t", "t", "p", "s", ":", "/", "/", "t", "r", ".", "w", "i", "k", "i", "p", "e", "d", "i", "a", ".", "o", "r", "g">>
href_Ali == <<"/", "w", "i", "k", "i", "/", "A", "l", "i">>

\* A table row (tr): the cleaned texts of its cells, and the href of the link
\* that is stored as wikipedia_link, if the row has one.  The rows taken here
\* hold either no link at all or a bold link to a person page in a column
\* that both scripts take the link from.
TableRowsOf(texts) ==
    { [cells |-> cells, link |-> link] :
        cells \in UNION { [1..n -> texts] : n \in 1..MaxCells },
        link \in {None, Some(href_Ali)} }

\* The values of row_data for a row with at least two cells: position, one
\* text per cell (the column names differ), and wikipedia_link when a link
\* was found.  The scripts look at the number of values and at whether one
\* of them holds a keyword, never at their order.
RowData(row) ==
    <<POSITION_VALUE>> \o row.cells
        \o (IF row.link = None THEN <<>> ELSE <<WIKIPEDIA_TR \o row.link[1]>>)

\* extract_table_data leaves the row out of data
DroppedByOfficials(row) ==
    \/ Len(row.cells) < 2
    \/ ~(Len(RowData(row)) > 2)
    \/ should_exclude_row(RowData(row))

\* scrape_prime_ministers leaves the row out of data
DroppedByRescrape(row) ==
    \/ Len(row.cells) < 2
    \/ ~(Len(RowData(row)) > 3)
    \/ rescrape_skip(RowData(row))

RowInit ==
    /\ x_row \in TableRowsOf(CellTexts)
    /\ x_excluded = None

\* Both scripts go through one and the same table row.
DecideRow ==
    /\ x_excluded = None
    /\ x_excluded' = Some([officials |-> DroppedByOfficials(x_row),
                           rescrape  |-> DroppedByRescrape(x_row)])
    /\ UNCHANGED <<x_row, notRow>>

InitRow == RowInit /\ IdleButRow
NextRow == DecideRow
SpecRow == InitRow /\ [][NextRow]_vars

ActingKeywords == {kw_vekaleten, kw_vekaleten_circ, kw_vekil, kw_gecici}

\* C7: a row that a script has built row_data for and that holds enough
\* data for it is dropped exactly when one of its values contains, in any
\* letter case, 'vekaleten', 'vekâleten', 'vekil' or 'geçici', and both
\* scripts decide so.
C7_SameExclusion ==
    (x_excluded # None /\ Len(x_row.cells) >= 2) =>
        LET acting == \E k \in 1..Len(RowData(x_row)) : \E kw \in ActingKeywords :
                          HasText(Lower(RowData(x_row)[k]), kw)
        IN  /\ Len(RowData(x_row)) > 2 => x_excluded[1].officials = acting
            /\ Len(RowData(x_row)) > 3 => x_excluded[1].rescrape = acting

-----------------------------------------------------------------------------
(* scripts/scrape_turkish_officials.py: unique headers (extract_table_data) *)
(* and the case-insensitive renaming of columns (save_to_sqlite)            *)

RECURSIVE DecimalDigits(_)
\* str(n) for n >= 0
DecimalDigits(n) ==
    LET digit == <<"0", "1", "2", "3", "4", "5", "6", "7", "8", "9">>[(n % 10) + 1]
    IN  IF n < 10 THEN <<digit>> ELSE Append(DecimalDigits(n \div 10), digit)

\* f"{name}_{n}"
Suffixed(name, n) == name \o <<"_">> \o DecimalDigits(n)

RECURSIVE UniqueHeaders(_, _, _)
\* The loop over the header cells: seen_headers counts each header text
\* (compared as is); a repeated text gets the suffix _<count>.
UniqueHeaders(texts, seen_headers, headers) ==
    IF texts = <<>> THEN headers
    ELSE LET header_text == Head(texts)
         IN  IF header_text = <<>>
             THEN UniqueHeaders(Tail(texts), seen_headers, headers)
             ELSE IF header_text \in DOMAIN seen_headers
             THEN LET n == seen_headers[header_text] + 1
                  IN  UniqueHeaders(Tail(texts),
                                    [seen_headers EXCEPT ![header_text] = n],
                                    Append(headers, Suffixed(header_text, n)))
             ELSE UniqueHeaders(Tail(texts),
                                (header_text :> 0) @@ seen_headers,
                                Append(headers, header_text))

col_position == <<"p", "o", "s", "i", "t", "i", "o", "n">>
col_wikipedia_link ==
    <<"w", "i", "k", "i", "p", "e", "d", "i", "a", "_", "l", "i", "n", "k">>
col_column == <<"c", "o", "l", "u", "m", "n">>

\* col_name of the cell with enumerate() index idx (from 0)
ColName(headers, idx) ==
    IF idx < Len(headers) THEN headers[idx + 1] ELSE Suffixed(col_column, idx)

RECURSIVE RowKeys(_, _, _, _)
\* The keys of row_data in insertion order, for a row of n_cells cells whose
\* person link is found in cell link_cell (counted from 1; 0: no link).
\* Assigning to a key the dict already holds keeps its place.
RowKeys(headers, n_cells, link_cell, idx) ==
    IF idx >= n_cells THEN <<>>
    ELSE (IF link_cell = idx + 1 THEN <<col_wikipedia_link>> ELSE <<>>)
         \o <<ColName(headers, idx)>>
         \o RowKeys(headers, n_cells, link_cell, idx + 1)

RECURSIVE DictKeys(_, _)
DictKeys(keys, kept) ==
    IF keys = <<>> THEN kept
    ELSE IF \E k \in 1..Len(kept) : kept[k] = Head(keys)
         THEN DictKeys(Tail(keys), kept)
         ELSE DictKeys(Tail(keys), Append(kept, Head(keys)))

RECURSIVE RenameColumns(_, _, _)
\* save_to_sqlite: counts are kept per lower-cased name; a name whose
\* lower-cased form was seen before gets the suffix _<count>.
RenameColumns(columns, col_counts_case_insensitive, new_cols) ==
    IF columns = <<>> THEN new_cols
    ELSE LET col == Head(columns)
             col_lower == Lower(col)
         IN  IF col_lower \in DOMAIN col_counts_case_insensitive
             THEN LET n == col_counts_case_insensitive[col_lower] + 1
                  IN  RenameColumns(Tail(columns),
                                    [col_counts_case_insensitive EXCEPT ![col_lower] = n],
                                    Append(new_cols, Suffixed(col, n)))
             ELSE RenameColumns(Tail(columns),
                                (col_lower :> 0) @@ col_counts_case_insensitive,
                                Append(new_cols, col))

EmptyDict == [key \in {} |-> 0]

\* Header texts of the first row: two spellings that differ in case only,
\* the same with a numeric suffix, and an unrelated one.
HeaderTexts ==
    { <<"A", "d">>, <<"a", "d">>, <<"A", "d", "_", "1">>, <<"a", "d", "_", "1">>,
      <<"Y", "i", "l">> }

MaxHeaders == 3

ColInit ==
    /\ k_headers \in UNION { [1..n -> HeaderTexts] : n \in 1..MaxHeaders }
    /\ k_link_cell \in 0..MaxHeaders
    /\ k_pc = "scrape"
    /\ k_columns = <<>>
    /\ k_new_cols = <<>>

\* extract_table_data on a table whose data rows have one cell per header
\* cell, then pd.DataFrame(data): df.columns are the keys of row_data.
\* A row is kept when it has at least two cells and more than two keys.
ExtractColumns ==
    /\ k_pc = "scrape"
    /\ Len(k_headers) >= 2
    /\ LET headers == UniqueHeaders(k_headers, EmptyDict, <<>>)
           keys == DictKeys(<<col_position>>
                              \o RowKeys(headers, Len(k_headers), k_link_cell, 0), <<>>)
       IN  /\ Len(keys) > 2
           /\ k_columns' = keys
    /\ k_pc' = "frame"
    /\ UNCHANGED <<k_headers, k_link_cell, k_new_cols, notCol>>

\* save_to_sqlite: df_copy.columns = new_cols
SaveToSqlite ==
    /\ k_pc = "frame"
    /\ k_new_cols' = RenameColumns(k_columns, EmptyDict, <<>>)
    /\ k_pc' = "saved"
    /\ UNCHANGED <<k_headers, k_link_cell, k_columns, notCol>>

InitCol == ColInit /\ IdleButCol
NextCol == ExtractColumns \/ SaveToSqlite
SpecCol == InitCol /\ [][NextCol]_vars

\* C8: after save_to_sqlite has renamed the columns, no two column names are
\* equal when compared case-insensitively.
C8_NoCaseInsensitiveDuplicates ==
    k_pc = "saved" =>
        \A i, j \in 1..Len(k_new_cols) :
            i # j => Lower(k_new_cols[i]) # Lower(k_new_cols[j])

-----------------------------------------------------------------------------
(* scripts/calculate_appointment_ages.py *)

\* the alternatives of \b(19\d{2}|20\d{2})\b
StartYearPrefixes == { <<"1", "9">>, <<"2", "0">> }

\* extract_year_from_date(date_str): None, or the year as an int
extract_year_from_date(date_str) ==
    IF date_str = <<>> \/ Strip(date_str) = <<>> THEN None
    ELSE With(YearSearch(date_str, StartYearPrefixes), LAMBDA year_match :
             IF year_match # None THEN Some(DigitsValue(year_match[1])) ELSE None)

\* the WHERE clause of the query: both columns are neither NULL nor '',
\* and birth_year is not '?'
SelectedByQuery(row) ==
    /\ row.birth_year # None
    /\ row.birth_year[1] # <<>>
    /\ row.birth_year[1] # <<"?">>
    /\ row.start_date # None
    /\ row.start_date[1] # <<>>

\* The sanity check on an age, with 100 itself left out.
AgeInRangeExclusive(age) == 18 <= age /\ age < 100

\* 18 <= age <= 100
AgeInRange(age) == 18 <= age /\ age <= 100

\* The body of the loop over cursor.fetchall() for one row of the query: the
\* ages list after it.  int() raising ValueError leaves the try block, and
\* the bare except passes.
AgesAfterRow(ages, birth_year_str, start_date) ==
    With(IntOfStr(birth_year_str), LAMBDA birth_year :
        IF birth_year = None THEN ages
        ELSE With(extract_year_from_date(start_date), LAMBDA start_year :
                 IF start_year # None /\ start_year[1] # 0 /\ birth_year[1] # 0
                 THEN With(start_year[1] - birth_year[1], LAMBDA age :
                          IF AgeInRange(age) THEN Append(ages, age) ELSE ages)
                 ELSE ages))

col_birth_year == <<"b", "i", "r", "t", "h", "_", "y", "e", "a", "r">>
col_Baslangic  == <<"B", "a", s_cedilla, "l", "a", "n", "g", i_dotless, c_cedilla>>
col_Goreve_basladi ==
    <<"G", o_umlaut, "r", "e", "v", "e", " ", "B", "A", S_cedilla, "L", "A", "D", "I">>
col_Donem      == <<"D", o_umlaut, "n", "e", "m">>

txt_basla     == <<"b", "a", s_cedilla, "l", "a">>
txt_baslangic == <<"b", "a", s_cedilla, "l", "a", "n", "g", i_dotless, c_cedilla>>

\* 'başla' in col.lower() or 'başlangıç' in col.lower()
IsStartDateColumn(col) ==
    Contains(Lower(col), txt_basla) \/ Contains(Lower(col), txt_baslangic)

\* The column sets of the tables (PRAGMA table_info); each holds at most one
\* start date column.
ColumnSets ==
    { {col_birth_year, col_Baslangic},
      {col_birth_year, col_Goreve_basladi, col_Donem},
      {col_birth_year, col_Donem} }

\* sorted(tables)
AgeTables == <<<<"m", "i", "n", "i", "s", "t", "e", "r", "_", "o", "f", "_", "h", "e", "a", "l", "t", "h">>,
               <<"p", "r", "i", "m", "e", "_", "m", "i", "n", "i", "s", "t", "e", "r">>>>

\* table.replace('_', ' ').title()
position_name(table) == Title(Replace(table, <<"_">>, <<" ">>))

\* position_name of each table of the database
PositionNames ==
    [table \in { AgeTables[k] : k \in 1..Len(AgeTables) } |-> position_name(table)]

label_OVERALL == <<"O", "V", "E", "R", "A", "L", "L">>

BirthYearValues ==
    { None,
      Some(<<"1", "9", "5", "0">>), Some(<<"1", "8", "9", "0">>),
      Some(<<"1", "9", "8", "5">>), Some(<<"1", "9", "x", "0">>),
      Some(<<"?">>) }

StartDateValues ==
    { Some(<<>>),
      Some(<<"5", " ", "M", "a", "r", "t", " ", "1", "9", "8", "0">>),
      Some(<<"1", "9", "9", "0">>),
      Some(<<"2", "1", "5", "0">>) }

\* rows of one table
MaxAgeRows == 2

\* sorted(ages)
Sorted(ages) == SortSeq(ages, LAMBDA x, y : x < y)

RECURSIVE Sum(_)
Sum(ages) == IF ages = <<>> THEN 0 ELSE Head(ages) + Sum(Tail(ages))

\* sorted(ages)[len(ages) // 2]
median_age(ages) == Sorted(ages)[(Len(ages) \div 2) + 1]

\* One printed line of the table: N, MIN, AVG (as sum and N), MAX, MEDIAN.
StatsLine(label, ages) ==
    [position |-> label, n |-> Len(ages), min |-> Sorted(ages)[1],
     sum |-> Sum(ages), max |-> Sorted(ages)[Len(ages)],
     median |-> median_age(ages), ages |-> ages]

\* An entry of all_results; avg is sum / n.
Result(position, ages) ==
    [position |-> position, n |-> Len(ages), sum |-> Sum(ages), ages |-> ages]

\* all_ages: the ages of every entry of all_results, in order
AllAges(all_results) ==
    Concat([k \in 1..Len(all_results) |-> all_results[k].ages])

\* all_results.sort(key=lambda x: x['avg']): ascending average, entries with
\* the same average in the order they had
SortedByAvg(all_results) ==
    LET n == Len(all_results)
        Before(j, i) ==
            \/ all_results[j].sum * all_results[i].n
                   < all_results[i].sum * all_results[j].n
            \/ /\ all_results[j].sum * all_results[i].n
                   = all_results[i].sum * all_results[j].n
               /\ j < i
    IN  [p \in 1..n |->
            all_results[CHOOSE i \in 1..n :
                            Cardinality({ j \in 1..n : Before(j, i) }) = p - 1]]

AgeInit ==
    /\ a_pc = "main_loop"
    /\ a_tables = AgeTables
    /\ a_has_date_col = FALSE
    /\ a_rows = <<>>
    /\ a_ages = <<>>
    /\ a_all_results = <<>>
    /\ a_lines = <<>>

\* calculate_ages_for_table up to the query: the start date column is looked
\* for; without one the function returns [].
OpenTable ==
    /\ a_pc = "main_loop"
    /\ a_tables # <<>>
    /\ \E columns \in ColumnSets :
           a_has_date_col' = (\E col \in columns : IsStartDateColumn(col))
    /\ a_rows' = <<>>
    /\ a_ages' = <<>>
    /\ a_pc' = "rows"
    /\ UNCHANGED <<a_tables, a_all_results, a_lines, notAge>>

\* One row of the table: the query selects it or not, and a selected row goes
\* through the loop body.
FetchRow ==
    /\ a_pc = "rows"
    /\ a_has_date_col
    /\ Len(a_rows) < MaxAgeRows
    /\ \E birth_year \in BirthYearValues, start_date \in StartDateValues :
        LET row == [birth_year |-> birth_year, start_date |-> start_date]
        IN  /\ a_rows' = Append(a_rows, row)
            /\ a_ages' = IF SelectedByQuery(row)
                         THEN AgesAfterRow(a_ages, birth_year[1], start_date[1])
                         ELSE a_ages
    /\ UNCHANGED <<a_pc, a_tables, a_has_date_col, a_all_results, a_lines, notAge>>

\* calculate_ages_for_table returns; when ages is not empty main prints the
\* table's line under its position name, appends the result to all_results,
\* and goes on to the next table.
TableStats ==
    /\ a_pc = "rows"
    /\ IF a_ages # <<>>
       THEN /\ a_lines' = Append(a_lines, StatsLine(PositionNames[Head(a_tables)], a_ages))
            /\ a_all_results' = Append(a_all_results,
                                        Result(PositionNames[Head(a_tables)], a_ages))
       ELSE UNCHANGED <<a_lines, a_all_results>>
    /\ a_tables' = Tail(a_tables)
    /\ a_pc' = "main_loop"
    /\ UNCHANGED <<a_has_date_col, a_rows, a_ages, notAge>>

\* The OVERALL line over all_ages, printed when all_ages is not empty.
OverallStats ==
    /\ a_pc = "main_loop"
    /\ a_tables = <<>>
    /\ LET all_ages == AllAges(a_all_results)
       IN  a_lines' = IF all_ages # <<>>
                      THEN Append(a_lines, StatsLine(label_OVERALL, all_ages))
                      ELSE a_lines
    /\ a_pc' = "insights"
    /\ UNCHANGED <<a_tables, a_has_date_col, a_rows, a_ages, a_all_results, notAge>>

\* KEY INSIGHTS: all_results is sorted in place by average age; the closing
\* prints then read overall_avg and min(all_ages), which exist only when
\* all_ages is not empty.
KeyInsights ==
    /\ a_pc = "insights"
    /\ a_all_results' = SortedByAvg(a_all_results)
    /\ a_pc' = IF AllAges(a_all_results) = <<>> THEN "NameError" ELSE "done"
    /\ UNCHANGED <<a_tables, a_has_date_col, a_rows, a_ages, a_lines, notAge>>

InitAge == AgeInit /\ IdleButAge
NextAge == OpenTable \/ FetchRow \/ TableStats \/ OverallStats \/ KeyInsights
SpecAge == InitAge /\ [][NextAge]_vars

\* The claim's reading of a row: its birth year when birth_year is a string
\* of digits, its start year when the start date holds a run of exactly four
\* digits that reads 1900..2099 (the leftmost such run).
AllDigits(s) == s # <<>> /\ \A k \in 1..Len(s) : s[k] \in Digits

IsYearRun(s, k) ==
    /\ k + 3 <= Len(s)
    /\ AllDigits(SubSeq(s, k, k + 3))
    /\ DigitsValue(SubSeq(s, k, k + 3)) \in 1900..2099
    /\ (k = 1 \/ ~IsWord(s[k - 1]))
    /\ (k + 3 = Len(s) \/ ~IsWord(s[k + 4]))

RowHasAge(row) ==
    /\ row.birth_year # None /\ AllDigits(row.birth_year[1])
    /\ row.start_date # None
    /\ \E k \in 1..Len(row.start_date[1]) : IsYearRun(row.start_date[1], k)

RowAge(row) ==
    LET s == row.start_date[1]
        k == CHOOSE a \in 1..Len(s) :
                 IsYearRun(s, a) /\ \A b \in 1..(a - 1) : ~IsYearRun(s, b)
    IN  DigitsValue(SubSeq(s, k, k + 3)) - DigitsValue(row.birth_year[1])

RECURSIVE AgesOfRows(_)
AgesOfRows(rows) ==
    IF rows = <<>> THEN <<>>
    ELSE LET row == rows[Len(rows)]
             earlier == AgesOfRows(SubSeq(rows, 1, Len(rows) - 1))
         IN  IF RowHasAge(row) /\ RowAge(row) \in 18..100
             THEN Append(earlier, RowAge(row))
             ELSE earlier

\* C9: every age returned by calculate_ages_for_table is the start year minus
\* the birth year of one row and lies in 18..100; a row with a birth_year that
\* is no integer string, with no year 1900-2099 in its start date, or with an
\* age outside 18..100 contributes nothing, and no error is raised.
C9_AgesOfValidRows ==
    a_pc = "rows" =>
        /\ a_ages = AgesOfRows(a_rows)
        /\ \A k \in 1..Len(a_ages) : a_ages[k] \in 18..100

\* C9 witness: a table in which one row gave the age 100, one row has a
\* birth_year that is no integer, and nothing else was added.
C9_Witness ==
    /\ a_pc = "rows"
    /\ Len(a_rows) = 2
    /\ a_rows[1].birth_year = Some(<<"1", "8", "9", "0">>)
    /\ a_rows[1].start_date = Some(<<"1", "9", "9", "0">>)
    /\ a_rows[2].birth_year = Some(<<"1", "9", "x", "0">>)
    /\ a_rows[2].start_date = Some(<<"1", "9", "9", "0">>)
    /\ a_ages = <<100>>

\* Twice the median of a list: twice the middle element of the ordered list
\* when the length is odd, the sum of the two middle elements when it is even.
\* The element of rank r is the value v with fewer than r elements below it
\* and at least r elements not above it.
Ranked(ages, r) ==
    CHOOSE v \in { ages[k] : k \in 1..Len(ages) } :
        /\ Cardinality({ k \in 1..Len(ages) : ages[k] < v }) < r
        /\ Cardinality({ k \in 1..Len(ages) : ages[k] <= v }) >= r

TwiceMedian(ages) ==
    LET n == Len(ages)
    IN  IF n % 2 = 1 THEN 2 * Ranked(ages, (n + 1) \div 2)
        ELSE Ranked(ages, n \div 2) + Ranked(ages, (n \div 2) + 1)

\* C10: the MEDIAN printed for each position and for OVERALL is the median of
\* that list of ages.
C10_PrintedMedian ==
    \A k \in 1..Len(a_lines) :
        2 * a_lines[k].median = TwiceMedian(a_lines[k].ages)

-----------------------------------------------------------------------------
(* scripts/scrape_biographical_info.py: extract_birth_info                 *)
(*                                                                         *)
(* A parsed page (soup) is a record: infobox is None or the rows of the    *)
(* first table of class infobox, first_para is None or the text of the     *)
(* first <p>.  A row has th (None or the header's text) and td (None or    *)
(* the cell's pieces of text in document order, each inside an <a> or not).*)

\* the length of the maximal run of characters of class Is(_) that starts at k
RunLength(s, k, Is(_)) ==
    IF k < 1 \/ k > Len(s) THEN 0
    ELSE LET runs == { n \in 0..(Len(s) - k + 1) : \A j \in k..(k + n - 1) : Is(s[j]) }
         IN  CHOOSE n \in runs : \A m \in runs : m <= n

\* The index after the run of at least `least` characters of class Is(_)
\* that starts at k, or 0 when the run is shorter; 0 for k = 0, so that a part
\* of a pattern that did not match makes the parts after it not match.
AfterRun(s, k, Is(_), least) ==
    With(RunLength(s, k, Is), LAMBDA n : IF k = 0 \/ n < least THEN 0 ELSE k + n)

\* A match of \d+\s+\w+\s+\d{4} that starts at k: the index after it, or 0.
\* Each class excludes the first character of what follows it, so every
\* repetition takes its whole run.
DateEnd(s, k) ==
    With(AfterRun(s, AfterRun(s, AfterRun(s, AfterRun(s, k, IsDigit, 1),
                                          IsSpace, 1), IsWord, 1), IsSpace, 1),
         LAMBDA y : IF y # 0 /\ RunLength(s, y, IsDigit) >= 4 THEN y + 4 ELSE 0)

RECURSIVE RemoveDates(_, _)
\* re.sub(r'\d+\s+\w+\s+\d{4}', '', s) from index k on
RemoveDates(s, k) ==
    With({ j \in k..Len(s) : DateEnd(s, j) # 0 }, LAMBDA starts :
        IF starts = {} THEN SubSeq(s, k, Len(s))
        ELSE SubSeq(s, k, Min(starts) - 1) \o RemoveDates(s, DateEnd(s, Min(starts))))

\* A match of \(.*?\) that starts at k: the index of its ')', or 0.  The dot
\* does not match a line break.
ParenEnd(s, k) ==
    With({ j \in (k + 1)..Len(s) :
             s[j] = ")" /\ \A i \in (k + 1)..(j - 1) : s[i] # "\n" },
         LAMBDA closes :
             IF k <= Len(s) /\ s[k] = "(" /\ closes # {} THEN Min(closes) ELSE 0)

RECURSIVE RemoveParens(_, _)
\* re.sub(r'\(.*?\)', '', s) from index k on
RemoveParens(s, k) ==
    With({ j \in k..Len(s) : ParenEnd(s, j) # 0 }, LAMBDA starts :
        IF starts = {} THEN SubSeq(s, k, Len(s))
        ELSE SubSeq(s, k, Min(starts) - 1)
                 \o RemoveParens(s, ParenEnd(s, Min(starts)) + 1))

\* the alternatives of \b(18\d{2}|19\d{2}|20\d{2})\b
InfoboxYearPrefixes == { <<"1", "8">>, <<"1", "9">>, <<"2", "0">> }

\* the alternatives of (1\d{3}|20\d{2}) in the first-paragraph pattern
FallbackYearPrefixes == { <<"1">>, <<"2", "0">> }

\* Four digits at k that begin with one of the prefixes, followed by \b.
YearThenBoundary(s, k, prefixes) ==
    /\ k + 3 <= Len(s)
    /\ \A j \in k..(k + 3) : IsDigit(s[j])
    /\ \E prefix \in prefixes : OccursAt(s, prefix, k)
    /\ WordBoundary(s, k + 4)

\* (\d{1,2}\s+\w+\s+)? at k: the index after the group when it takes part in
\* the match, else k.  One or two digits must be followed by white space, so
\* the group and a year cannot both start at k.
AfterDayMonth(s, k) ==
    With(AfterRun(s, AfterRun(s, AfterRun(s, AfterRun(s, k, IsDigit, 1),
                                          IsSpace, 1), IsWord, 1), IsSpace, 1),
         LAMBDA y : IF y # 0 /\ RunLength(s, k, IsDigit) <= 2 THEN y ELSE k)

\* A match of \b(d\.\s*)?(\d{1,2}\s+\w+\s+)?(1\d{3}|20\d{2})\b that starts
\* at k: None, or group 3.
FallbackYearAt(s, k) ==
    With(AfterDayMonth(s, IF OccursAt(s, <<"d", ".">>, k)
                          THEN k + 2 + RunLength(s, k + 2, IsSpace)
                          ELSE k),
         LAMBDA year_at :
             IF WordBoundary(s, k) /\ YearThenBoundary(s, year_at, FallbackYearPrefixes)
             THEN Some(SubSeq(s, year_at, year_at + 3))
             ELSE None)

\* re.search of that pattern in the paragraph: group 3 of the leftmost match
FallbackYearSearch(s) ==
    With({ k \in 1..Len(s) : FallbackYearAt(s, k) # None }, LAMBDA hits :
        IF hits = {} THEN None ELSE FallbackYearAt(s, Min(hits)))

\* A match of d\.\s*\d+[^,]*,\s*([^)]+) that starts at k: None, or group 1.
\* [^,]* ends at the first comma; \s* gives back its last character when
\* nothing but ')' or the end follows it.
PlaceAt(s, k) ==
    LET NotClose(c) == c # ")"
    IN  IF ~OccursAt(s, <<"d", ".">>, k) THEN None
        ELSE
        With(k + 2 + RunLength(s, k + 2, IsSpace), LAMBDA digits_at :
        With({ j \in digits_at..Len(s) : s[j] = "," }, LAMBDA commas :
            IF RunLength(s, digits_at, IsDigit) = 0 \/ commas = {} THEN None
            ELSE
            With(RunLength(s, Min(commas) + 1, IsSpace), LAMBDA spaces :
            With(Min(commas) + 1 + spaces, LAMBDA start :
            With(RunLength(s, start, NotClose), LAMBDA taken :
                IF taken >= 1 THEN Some(SubSeq(s, start, start + taken - 1))
                ELSE IF spaces >= 1 THEN Some(SubSeq(s, start - 1, start - 1))
                ELSE None)))))

PlaceSearch(s) ==
    With({ k \in 1..Len(s) : PlaceAt(s, k) # None }, LAMBDA hits :
        IF hits = {} THEN None ELSE PlaceAt(s, Min(hits)))

txt_dogum == <<"d", "o", g_breve, "u", "m">>
txt_dog   == <<"d", "o", g_breve, ".">>

\* value_cell.get_text()
CellText(td) == Concat([k \in 1..Len(td) |-> td[k].text])

RECURSIVE Locations(_)
\* The texts of the cell's links that do not start with a digit and are
\* longer than two characters.
Locations(td) ==
    IF td = <<>> THEN <<>>
    ELSE With(Strip(Head(td).text), LAMBDA link_text :
             (IF /\ Head(td).link
                 /\ ~(link_text # <<>> /\ IsDigit(link_text[1]))
                 /\ Len(link_text) > 2
              THEN <<link_text>> ELSE <<>>) \o Locations(Tail(td)))

RECURSIVE JoinComma(_)
\* ', '.join(locations)
JoinComma(locations) ==
    IF Len(locations) = 1 THEN locations[1]
    ELSE locations[1] \o <<",", " ">> \o JoinComma(Tail(locations))

\* The body of the loop over the infobox rows for one row.
AfterInfoboxRow(birth_info, row) ==
    IF row.th = None THEN birth_info
    ELSE IF Lower(Strip(row.th[1])) \notin {txt_dogum, txt_dog} \/ row.td = None
    THEN birth_info
    ELSE With(Strip(CellText(row.td[1])), LAMBDA value_text :
        [birth_year  |->
            With(YearSearch(value_text, InfoboxYearPrefixes), LAMBDA year_match :
                IF year_match # None THEN year_match ELSE birth_info.birth_year),
         birth_date  |-> Some(value_text),
         birth_place |->
            With(Locations(row.td[1]), LAMBDA locations :
                IF locations # <<>> THEN Some(JoinComma(locations))
                ELSE With(StripChars(RemoveParens(RemoveDates(value_text, 1), 1),
                                     {".", ",", " "}),
                          LAMBDA place_text :
                              IF Len(place_text) > 2 THEN Some(place_text)
                              ELSE birth_info.birth_place))])

RECURSIVE AfterInfoboxRows(_, _)
AfterInfoboxRows(birth_info, rows) ==
    IF rows = <<>> THEN birth_info
    ELSE AfterInfoboxRows(AfterInfoboxRow(birth_info, Head(rows)), Tail(rows))

\* not birth_info[key]: None or the empty string
Falsy(value) == value = None \/ value[1] = <<>>

\* a birth_info that starts out with a placeholder for the year
UnknownBirthInfo ==
    [birth_year |-> Some(<<"?">>), birth_place |-> None, birth_date |-> None]

\* birth_info as extract_birth_info sets it up, and returns it for no soup
NoBirthInfo == [birth_year |-> None, birth_place |-> None, birth_date |-> None]

\* The alternative look into the first paragraph.
AfterFirstParagraph(birth_info, first_para) ==
    IF ~(Falsy(birth_info.birth_year) \/ Falsy(birth_info.birth_place))
       \/ first_para = None
    THEN birth_info
    ELSE [birth_info EXCEPT
            !.birth_year =
                With(FallbackYearSearch(first_para[1]), LAMBDA year_match :
                    IF Falsy(birth_info.birth_year) /\ year_match # None
                    THEN year_match ELSE birth_info.birth_year),
            !.birth_place =
                With(PlaceSearch(first_para[1]), LAMBDA place_match :
                    IF Falsy(birth_info.birth_place) /\ place_match # None
                    THEN Some(Strip(place_match[1])) ELSE birth_info.birth_place)]

\* extract_birth_info(soup); soup is None when the fetch failed
extract_birth_info(soup) ==
    IF soup = None THEN NoBirthInfo
    ELSE AfterFirstParagraph(
             IF soup[1].infobox = None THEN NoBirthInfo
             ELSE AfterInfoboxRows(NoBirthInfo, soup[1].infobox[1]),
             soup[1].first_para)


\* Pieces of pages.
Piece(text, link) == [text |-> text, link |-> link]

th_Dogum      == <<"D", "o", g_breve, "u", "m">>
th_Dog        == <<"D", "o", g_breve, ".">>
th_Dogum_yeri == <<"D", "o", g_breve, "u", "m", " ", "y", "e", "r", "i">>

\* <a>5 Mart</a> 1881, <a>Selanik</a>
td_Selanik ==
    << Piece(<<"5", " ", "M", "a", "r", "t">>, TRUE),
       Piece(<<" ", "1", "8", "8", "1", ",", " ">>, FALSE),
       Piece(<<"S", "e", "l", "a", "n", "i", "k">>, TRUE) >>
\* 1315 (1899)
td_both_calendars ==
    << Piece(<<"1", "3", "1", "5", " ", "(", "1", "8", "9", "9", ")">>, FALSE) >>
\* 5 Mart 1315, Bursa
td_hijri ==
    << Piece(<<"5", " ", "M", "a", "r", "t", " ", "1", "3", "1", "5", ",", " ",
               "B", "u", "r", "s", "a">>, FALSE) >>
\* 1950
td_year_only == << Piece(<<"1", "9", "5", "0">>, FALSE) >>

\* Ali (d. 1315, Bursa) bir
para_hijri ==
    <<"A", "l", "i", " ", "(", "d", ".", " ", "1", "3", "1", "5", ",", " ",
      "B", "u", "r", "s", "a", ")", " ", "b", "i", "r">>
\* Ali (d. 5 Mart 1950, Konya)
para_day_month ==
    <<"A", "l", "i", " ", "(", "d", ".", " ", "5", " ", "M", "a", "r", "t", " ",
      "1", "9", "5", "0", ",", " ", "K", "o", "n", "y", "a", ")">>
\* Veli 1990 da
para_plain == <<"V", "e", "l", "i", " ", "1", "9", "9", "0", " ", "d", "a">>

HeaderCells == { None, Some(th_Dogum), Some(th_Dog), Some(th_Dogum_yeri) }
ValueCells ==
    { None, Some(td_Selanik), Some(td_both_calendars), Some(td_hijri),
      Some(td_year_only) }
Paragraphs == { None, Some(para_hijri), Some(para_day_month), Some(para_plain) }

\* rows of an infobox
MaxInfoRows == 2

InfoboxRows == { [th |-> th, td |-> td] : th \in HeaderCells, td \in ValueCells }

Pages ==
    { [infobox |-> infobox, first_para |-> para] :
        infobox \in {None} \cup
            { Some(rows) : rows \in UNION { [1..n -> InfoboxRows] : n \in 0..MaxInfoRows } },
        para \in Paragraphs }

BirthInit == b_soup \in {None} \cup { Some(page) : page \in Pages } /\ b_info = None

\* birth_info = extract_birth_info(soup)
ExtractBirthInfo ==
    /\ b_info = None
    /\ b_info' = Some(extract_birth_info(b_soup))
    /\ UNCHANGED <<b_soup, notBirth>>

InitBirth == BirthInit /\ IdleButBirth
NextBirth == ExtractBirthInfo
SpecBirth == InitBirth /\ [][NextBirth]_vars

\* C5: a birth_year that extract_birth_info returns is a four-digit year
\* between 1800 and 2099, from the infobox or from the first paragraph.
C5_BirthYearGregorian ==
    (b_info # None /\ b_info[1].birth_year # None) =>
        LET year == b_info[1].birth_year[1]
        IN  /\ Len(year) = 4
            /\ AllDigits(year)
            /\ DigitsValue(year) \in 1800..2099

-----------------------------------------------------------------------------
(* scripts/scrape_biographical_info.py: process_table and main *)

url_Ali ==
    <<"h", "t", "t", "p", "s", ":", "/", "/", "t", "r", ".">> \o WIKIPEDIA_ORG
        \o <<"/", "w", "i", "k", "i", "/", "A", "l", "i">>
url_Veli ==
    <<"h", "t", "t", "p", "s", ":", "/", "/", "t", "r", ".">> \o WIKIPEDIA_ORG
        \o <<"/", "w", "i", "k", "i", "/", "V", "e", "l", "i">>
url_liste ==
    <<"h", "t", "t", "p", "s", ":", "/", "/", "t", "r", ".">> \o WIKIPEDIA_ORG
        \o <<"/", "w", "i", "k", "i", "/", "B", "a", "k", "a", "n", "_">> \o pat_listesi

\* row[link_col]: NULL, or a link
ScrapeUrls == { None, Some(url_Ali), Some(url_Veli), Some(url_liste) }

\* row['Başbakan']: a name with the years of life, or the name of a cabinet
BasbakanValues ==
    { Some(<<"A", "l", "i", "(", "1", "8", "8", "4", "-", "1", "9", "7", "3", ")">>),
      Some(<<"I", "I", ".", " ", "A", "l", "i">>) }

col_Basbakan == <<"B", "a", s_cedilla, "b", "a", "k", "a", "n">>
col_Bakan    == <<"B", "a", "k", "a", "n">>
col_Baskan   == <<"B", "a", s_cedilla, "k", "a", "n">>

\* the tables of the database in the order sqlite_master lists them
ScrapeTables == <<"prime_minister", "minister_of_health", "governor_of_the_central_bank">>

\* df.columns as read from the database
TableColumns(table_name) ==
    IF table_name = "prime_minister"
    THEN <<col_position, col_Basbakan, col_wikipedia_link>>
    ELSE IF table_name = "minister_of_health"
    THEN <<col_position, col_Bakan, col_wikipedia_link>>
    ELSE <<col_position, col_Baskan>>

\* some column name contains 'wikipedia_link', letter case aside
HasLinkCol(columns) ==
    \E k \in 1..Len(columns) : Contains(Lower(columns[k]), col_wikipedia_link)

HasColumn(columns, col) == \E k \in 1..Len(columns) : columns[k] = col

\* rows of one table
MaxScrapeRows == 2

DfRow(url, basbakan) ==
    [url |-> url, basbakan |-> basbakan,
     birth_year |-> None, birth_place |-> None, birth_date |-> None]

\* The rows pd.read_sql_query can return for a table; a column the table
\* lacks reads as None.
TableRows(table_name) ==
    LET columns == TableColumns(table_name)
        rows == { DfRow(url, basbakan) :
                    url \in IF HasLinkCol(columns) THEN ScrapeUrls ELSE {None},
                    basbakan \in IF HasColumn(columns, col_Basbakan)
                                 THEN BasbakanValues ELSE {None} }
    IN  UNION { [1..n -> rows] : n \in 0..MaxScrapeRows }

\* What fetch_person_page can return: None after an exception, or the page.
page_Selanik == [infobox |-> Some(<<[th |-> Some(th_Dogum), td |-> Some(td_Selanik)]>>),
                 first_para |-> Some(para_plain)]

FetchResults == { None, Some(page_Selanik) }

\* df.at[idx, ...] = birth_info[...] for the three columns
RowWithBirthInfo(row, birth_info) ==
    [row EXCEPT !.birth_year = birth_info.birth_year,
                !.birth_place = birth_info.birth_place,
                !.birth_date = birth_info.birth_date]

\* re.search(r'\d{4}', text)
HasFourDigits(text) == \E k \in 1..Len(text) : RunLength(text, k, IsDigit) >= 4

\* processed_urls after a fetch that is recorded only when it gave a page.
AddIfFetched(processed_urls, url, soup) ==
    IF soup = None THEN processed_urls ELSE processed_urls \cup {url}

\* processed_urls.add(url), after the fetch whatever it returned
AddProcessed(processed_urls, url, soup) == processed_urls \cup {url}

ScrapeInit ==
    /\ s_pc = "main_loop"
    /\ s_tables = ScrapeTables
    /\ s_table = ""
    /\ s_df = <<>>
    /\ s_idx = 0
    /\ s_processed_urls = {}
    /\ s_requests = <<>>
    /\ s_soups = EmptyDict
    /\ s_counts = [new_people |-> 0, cached_people |-> 0, skipped |-> 0]
    /\ s_db = EmptyDict

\* main takes the next table; process_table reads it, looks for the link
\* column and adds the three birth columns.  Without a link column it
\* returns the table as read.
ReadTable ==
    /\ s_pc = "main_loop"
    /\ s_tables # <<>>
    /\ s_table' = Head(s_tables)
    /\ \E rows \in TableRows(Head(s_tables)) : s_df' = rows
    /\ s_idx' = 1
    /\ s_counts' = [new_people |-> 0, cached_people |-> 0, skipped |-> 0]
    /\ s_pc' = IF HasLinkCol(TableColumns(Head(s_tables))) THEN "rows" ELSE "save"
    /\ UNCHANGED <<s_tables, s_processed_urls, s_requests, s_soups, s_db, notScrape>>

\* The checks of the loop body that end the iteration without a fetch.
RowIsSkipped(table_name, row) ==
    \/ row.url = None \/ row.url[1] = <<>>
    \/ /\ table_name = "prime_minister"
       /\ HasColumn(TableColumns(table_name), col_Basbakan)
       /\ \/ row.basbakan = None \/ row.basbakan[1] = <<>>
          \/ ~HasFourDigits(row.basbakan[1])
    \/ ~is_person_page(row.url[1])

\* whether such an iteration counts in skipped
CountsAsSkipped(table_name, row) ==
    /\ row.url # None /\ row.url[1] # <<>>
    /\ ~( /\ table_name = "prime_minister"
          /\ HasColumn(TableColumns(table_name), col_Basbakan)
          /\ (row.basbakan = None \/ row.basbakan[1] = <<>>) )

\* One iteration of the loop over df.iterrows().
ProcessRow ==
    /\ s_pc = "rows"
    /\ s_idx <= Len(s_df)
    /\ LET row == s_df[s_idx]
       IN  IF RowIsSkipped(s_table, row)
           THEN /\ s_counts' = IF CountsAsSkipped(s_table, row)
                               THEN [s_counts EXCEPT !.skipped = @ + 1]
                               ELSE s_counts
                /\ UNCHANGED <<s_df, s_processed_urls, s_requests, s_soups>>
           ELSE IF row.url[1] \in s_processed_urls
           THEN /\ s_counts' = [s_counts EXCEPT !.cached_people = @ + 1]
                /\ UNCHANGED <<s_df, s_processed_urls, s_requests, s_soups>>
           ELSE \E soup \in FetchResults :
                  /\ s_requests' = Append(s_requests, row.url[1])
                  /\ s_soups' = (row.url[1] :> soup) @@ s_soups
                  /\ s_df' = [s_df EXCEPT ![s_idx] =
                                 RowWithBirthInfo(row, extract_birth_info(soup))]
                  /\ s_processed_urls' = AddProcessed(s_processed_urls, row.url[1], soup)
                  /\ s_counts' = [s_counts EXCEPT !.new_people = @ + 1]
    /\ s_idx' = s_idx + 1
    /\ UNCHANGED <<s_pc, s_tables, s_table, s_db, notScrape>>

\* The loop is over: process_table prints the summary and returns df.
ReturnTable ==
    /\ s_pc = "rows"
    /\ s_idx > Len(s_df)
    /\ s_pc' = "save"
    /\ UNCHANGED <<s_tables, s_table, s_df, s_idx, s_processed_urls, s_requests,
                   s_soups, s_counts, s_db, notScrape>>

\* df_updated.to_sql(table, ...) and to_csv, then the next table
SaveTable ==
    /\ s_pc = "save"
    /\ s_db' = (s_table :> s_df) @@ s_db
    /\ s_tables' = Tail(s_tables)
    /\ s_pc' = "main_loop"
    /\ UNCHANGED <<s_table, s_df, s_idx, s_processed_urls, s_requests, s_soups,
                   s_counts, notScrape>>

\* conn.close() and the final summary
FinishScrape ==
    /\ s_pc = "main_loop"
    /\ s_tables = <<>>
    /\ s_pc' = "done"
    /\ UNCHANGED <<s_tables, s_table, s_df, s_idx, s_processed_urls, s_requests,
                   s_soups, s_counts, s_db, notScrape>>

InitScrape == ScrapeInit /\ IdleButScrape
NextScrape == ReadTable \/ ProcessRow \/ ReturnTable \/ SaveTable \/ FinishScrape
SpecScrape == InitScrape /\ [][NextScrape]_vars

\* The rows the claim is about: a link that passes is_person_page and, in the
\* prime_minister table, a Başbakan value with a four-digit year.
FourDigitsIn(text) ==
    \E a \in 1..Len(text) : a + 3 <= Len(text) /\ AllDigits(SubSeq(text, a, a + 3))

RowIsPerson(table_name, row) ==
    /\ row.url # None
    /\ row.url[1] # <<>>
    /\ is_person_page(row.url[1])
    /\ table_name = "prime_minister" =>
           (row.basbakan # None /\ FourDigitsIn(row.basbakan[1]))

\* C1: after process_table returns, every such row holds the birth_year,
\* birth_place and birth_date that extract_birth_info yields for the page of
\* its url, also when the url occurred in an earlier row or table.
C1_EveryPersonRowFilled ==
    (s_pc = "save" /\ HasLinkCol(TableColumns(s_table))) =>
        \A k \in 1..Len(s_df) :
            RowIsPerson(s_table, s_df[k]) =>
                /\ s_df[k].url[1] \in DOMAIN s_soups
                /\ LET birth_info == extract_birth_info(s_soups[s_df[k].url[1]])
                   IN  /\ s_df[k].birth_year = birth_info.birth_year
                       /\ s_df[k].birth_place = birth_info.birth_place
                       /\ s_df[k].birth_date = birth_info.birth_date

\* C2: during one run of main each url is requested at most once, across
\* rows and tables, also when its fetch failed.
C2_EachUrlRequestedOnce ==
    \A i, j \in 1..Len(s_requests) : i # j => s_requests[i] # s_requests[j]

\* C2 witness: the only request of the run failed, in the first table, and a
\* row of the second table with the same url was passed over as cached.
C2_Witness ==
    /\ s_table = "minister_of_health"
    /\ s_pc = "save"
    /\ s_counts.cached_people >= 1
    /\ Len(s_requests) = 1
    /\ s_soups[s_requests[1]] = None
    /\ \E k \in 1..Len(s_df) : s_df[k].url = Some(s_requests[1])

\* the rows of df that an iteration of the loop counts
CountedRows(table_name, df) ==
    { k \in 1..Len(df) :
        ~RowIsSkipped(table_name, df[k]) \/ CountsAsSkipped(table_name, df[k]) }

\* C15: a failed fetch does not end the run.  A row whose url could not be
\* fetched holds None in the three birth columns, process_table has gone
\* through every row when it returns, and when main is done every table has
\* been written back.
C15_FetchFailureTolerated ==
    /\ s_pc \in {"rows", "save"} =>
          \A k \in 1..Len(s_df) :
              ( /\ s_df[k].url # None
                /\ s_df[k].url[1] \in DOMAIN s_soups
                /\ s_soups[s_df[k].url[1]] = None ) =>
                  /\ s_df[k].birth_year = None
                  /\ s_df[k].birth_place = None
                  /\ s_df[k].birth_date = None
    /\ (s_pc = "save" /\ HasLinkCol(TableColumns(s_table))) =>
          s_counts.new_people + s_counts.cached_people + s_counts.skipped
              = Cardinality(CountedRows(s_table, s_df))
    /\ s_pc = "done" =>
          \A i \in 1..Len(ScrapeTables) : ScrapeTables[i] \in DOMAIN s_db

\* C15 witness: main is done, a fetch failed and a later one was made, and
\* the tables are all written.
C15_Witness ==
    /\ s_pc = "done"
    /\ \E i, j \in 1..Len(s_requests) :
          i < j /\ s_soups[s_requests[i]] = None /\ s_soups[s_requests[j]] # None
    /\ \A i \in 1..Len(ScrapeTables) : ScrapeTables[i] \in DOMAIN s_db

-----------------------------------------------------------------------------
(* chiefs-of-staff-birthplaces/fix_missing_birthplaces.py: main and        *)
(* fix_csv_file                                                            *)
(*                                                                         *)
(* A CSV file is the sequence of its data rows; of a row the cells of the  *)
(* columns birthplace and status are kept, as the text between the commas. *)
(* A DataFrame row holds None for a missing value (NaN).                   *)

data_dir == <<"d", "a", "t", "a">>
csv_air_force == <<"a", "i", "r", "_", "f", "o", "r", "c", "e", "_", "c", "o", "m", "m", "a", "n", "d", "e", "r", "s", ".", "c", "s", "v">>
csv_naval == <<"n", "a", "v", "a", "l", "_", "c", "o", "m", "m", "a", "n", "d", "e", "r", "s", ".", "c", "s", "v">>
ext_csv == <<".", "c", "s", "v">>
ext_backup_csv == <<"_", "b", "a", "c", "k", "u", "p", ".", "c", "s", "v">>

\* os.path.join(data_dir, csv_file)
PathJoin(dir, file) == dir \o <<"/">> \o file

\* The cell texts pandas.read_csv reads as a missing value by default
\* (pandas 2: 'None' is one of them).
NA_VALUES ==
    { <<>>, <<"#", "N", "/", "A">>, <<"#", "N", "/", "A", " ", "N", "/", "A">>, <<"#", "N", "A">>, <<"-", "1", ".", "#", "I", "N", "D">>, <<"-", "1", ".", "#", "Q", "N", "A", "N">>, <<"-", "N", "a", "N">>, <<"-", "n", "a", "n">>,
      <<"1", ".", "#", "I", "N", "D">>, <<"1", ".", "#", "Q", "N", "A", "N">>, <<"<", "N", "A", ">">>, <<"N", "/", "A">>, <<"N", "A">>, <<"N", "U", "L", "L">>, <<"N", "a", "N">>, <<"n", "/", "a">>, <<"n", "a", "n">>,
      <<"n", "u", "l", "l">>, <<"N", "o", "n", "e">> }

\* pd.read_csv(path): the DataFrame of a file's rows
read_csv(rows) ==
    [k \in 1..Len(rows) |->
        [birthplace |-> IF rows[k].birthplace \in NA_VALUES
                        THEN None ELSE Some(rows[k].birthplace),
         status     |-> IF rows[k].status \in NA_VALUES
                        THEN None ELSE Some(rows[k].status)]]

\* df.to_csv(path, index=False, encoding='utf-8'): a missing value is
\* written as the empty cell
to_csv(df) ==
    [k \in 1..Len(df) |->
        [birthplace |-> IF df[k].birthplace = None THEN <<>> ELSE df[k].birthplace[1],
         status     |-> IF df[k].status = None THEN <<>> ELSE df[k].status[1]]]

st_found == <<"f", "o", "u", "n", "d">>
st_not_found == <<"n", "o", "t", "_", "f", "o", "u", "n", "d">>

\* missing_mask for one row
IsMissing(row) ==
    \/ row.birthplace = None
    \/ row.birthplace = Some(<<>>)
    \/ row.status = Some(st_not_found)

RECURSIVE MissingFrom(_, _)
\* the index of df[missing_mask], from row k on
MissingFrom(df, k) ==
    IF k > Len(df) THEN <<>>
    ELSE (IF IsMissing(df[k]) THEN <<k>> ELSE <<>>) \o MissingFrom(df, k + 1)

\* rows of a csv file
MaxCsvRows == 2

\* Rows of a commanders file: found, not found with an empty birthplace, not
\* found with the birthplace marked N/A, found by hand but not yet marked so.
CsvRows ==
    { [birthplace |-> <<"A", "d", "a", "n", "a">>, status |-> st_found],
      [birthplace |-> <<>>, status |-> st_not_found],
      [birthplace |-> <<"N", "/", "A">>, status |-> st_not_found],
      [birthplace |-> <<"B", "u", "r", "s", "a">>, status |-> st_not_found] }

\* a file is absent (None) or holds rows
FileStates ==
    {None} \cup { Some(rows) : rows \in UNION { [1..n -> CsvRows] : n \in 0..MaxCsvRows } }

\* What the try block of the loop comes to: an exception in requests.get or
\* raise_for_status, or the value of extract_birthplace_improved, which is
\* None or a non-empty string.
FixOutcomes ==
    { [raised |-> TRUE, birthplace |-> None],
      [raised |-> FALSE, birthplace |-> None],
      [raised |-> FALSE, birthplace |-> Some(<<"K", "o", "n", "y", "a">>)] }

\* csv_path of the file main is at
CsvPath == PathJoin(data_dir, Head(f_csv_files))

FixInit ==
    /\ f_pc = "main"
    /\ f_csv_files = <<csv_air_force, csv_naval>>
    /\ \E air_force, naval \in FileStates :
          f_files = [path \in
                        (IF air_force # None
                         THEN {PathJoin(data_dir, csv_air_force)} ELSE {})
                        \cup (IF naval # None
                              THEN {PathJoin(data_dir, csv_naval)} ELSE {})
                     |-> IF path = PathJoin(data_dir, csv_air_force)
                         THEN air_force[1] ELSE naval[1]]
    /\ f_original = <<>>
    /\ f_df = <<>>
    /\ f_todo = <<>>
    /\ f_updated_count = 0

\* main: the file does not exist, a warning is logged
FileNotFound ==
    /\ f_pc = "main"
    /\ f_csv_files # <<>>
    /\ CsvPath \notin DOMAIN f_files
    /\ f_csv_files' = Tail(f_csv_files)
    /\ UNCHANGED <<f_pc, f_files, f_original, f_df, f_todo, f_updated_count, notFix>>

\* main calls fix_csv_file: the file is read and the missing rows are
\* counted; with none missing the call returns.
OpenCsv ==
    /\ f_pc = "main"
    /\ f_csv_files # <<>>
    /\ CsvPath \in DOMAIN f_files
    /\ f_original' = f_files[CsvPath]
    /\ f_df' = read_csv(f_files[CsvPath])
    /\ f_todo' = MissingFrom(read_csv(f_files[CsvPath]), 1)
    /\ f_updated_count' = 0
    /\ IF MissingFrom(read_csv(f_files[CsvPath]), 1) = <<>>
       THEN f_pc' = "main" /\ f_csv_files' = Tail(f_csv_files)
       ELSE f_pc' = "loop" /\ UNCHANGED f_csv_files
    /\ UNCHANGED <<f_files, notFix>>

\* df.at[idx, 'birthplace'] = birthplace; df.at[idx, 'status'] = 'found'
RowFound(row, birthplace) ==
    [row EXCEPT !.birthplace = birthplace, !.status = Some(st_found)]

\* One iteration of the loop over the missing rows.
FixRow ==
    /\ f_pc = "loop"
    /\ f_todo # <<>>
    /\ \E outcome \in FixOutcomes :
          IF ~outcome.raised /\ outcome.birthplace # None
          THEN /\ f_df' = [f_df EXCEPT ![Head(f_todo)] = RowFound(@, outcome.birthplace)]
               /\ f_updated_count' = f_updated_count + 1
          ELSE UNCHANGED <<f_df, f_updated_count>>
    /\ f_todo' = Tail(f_todo)
    /\ UNCHANGED <<f_pc, f_csv_files, f_files, f_original, notFix>>

\* After the loop nothing was updated: no file is written.
NothingUpdated ==
    /\ f_pc = "loop"
    /\ f_todo = <<>>
    /\ f_updated_count = 0
    /\ f_pc' = "main"
    /\ f_csv_files' = Tail(f_csv_files)
    /\ UNCHANGED <<f_files, f_original, f_df, f_todo, f_updated_count, notFix>>

\* backup_path = csv_path.replace('.csv', '_backup.csv')
backup_path(csv_path) == Replace(csv_path, ext_csv, ext_backup_csv)

\* updated_count > 0: the csv file is read again and written to backup_path
WriteBackup ==
    /\ f_pc = "loop"
    /\ f_todo = <<>>
    /\ f_updated_count > 0
    /\ f_files' = (backup_path(CsvPath) :> to_csv(read_csv(f_files[CsvPath]))) @@ f_files
    /\ f_pc' = "update"
    /\ UNCHANGED <<f_csv_files, f_original, f_df, f_todo, f_updated_count, notFix>>

\* df.to_csv(csv_path, ...), the summary, return to main
WriteUpdated ==
    /\ f_pc = "update"
    /\ f_files' = (CsvPath :> to_csv(f_df)) @@ f_files
    /\ f_pc' = "main"
    /\ f_csv_files' = Tail(f_csv_files)
    /\ UNCHANGED <<f_original, f_df, f_todo, f_updated_count, notFix>>

\* main: all files done
FinishFix ==
    /\ f_pc = "main"
    /\ f_csv_files = <<>>
    /\ f_pc' = "done"
    /\ UNCHANGED <<f_csv_files, f_files, f_original, f_df, f_todo, f_updated_count, notFix>>

InitFix == FixInit /\ IdleButFix
NextFix ==
    FileNotFound \/ OpenCsv \/ FixRow \/ NothingUpdated \/ WriteBackup
        \/ WriteUpdated \/ FinishFix
SpecFix == InitFix /\ [][NextFix]_vars

\* <name>_backup.csv for the path <name>.csv
BackupName(path) == SubSeq(path, 1, Len(path) - 4) \o ext_backup_csv

\* C11: when fix_csv_file has found a new birthplace, the csv file keeps the
\* content it had at the call until the backup is written, and once the
\* backup is written <name>_backup.csv holds exactly that content while the
\* csv file is not yet overwritten.
C11_BackupBeforeOverwrite ==
    /\ f_pc = "loop" => f_files[CsvPath] = f_original
    /\ f_pc = "update" =>
          /\ f_updated_count > 0
          /\ BackupName(CsvPath) \in DOMAIN f_files
          /\ f_files[BackupName(CsvPath)] = f_original
          /\ f_files[CsvPath] = f_original

-----------------------------------------------------------------------------
(* Birthplace strings to city names: create_birthplace_map.py and
   analyze_birthplaces.py *)

\* the known cities, in the order the dict lists them: <<key, province>>
CITY_MAPPING ==
    <<      <<<<"i", "s", "t", "a", "n", "b", "u", "l">>, <<I_dotted, "s", "t", "a", "n", "b", "u", "l">>>>,
      <<<<"a", "n", "k", "a", "r", "a">>, <<"A", "n", "k", "a", "r", "a">>>>,
      <<<<"i", "z", "m", "i", "r">>, <<I_dotted, "z", "m", "i", "r">>>>,
      <<<<"b", "u", "r", "s", "a">>, <<"B", "u", "r", "s", "a">>>>,
      <<<<"a", "n", "t", "a", "l", "y", "a">>, <<"A", "n", "t", "a", "l", "y", "a">>>>,
      <<<<"a", "d", "a", "n", "a">>, <<"A", "d", "a", "n", "a">>>>,
      <<<<"k", "o", "n", "y", "a">>, <<"K", "o", "n", "y", "a">>>>,
      <<<<"g", "a", "z", "i", "a", "n", "t", "e", "p">>, <<"G", "a", "z", "i", "a", "n", "t", "e", "p">>>>,
      <<<<s_cedilla, "a", "n", "l", i_dotless, "u", "r", "f", "a">>, <<S_cedilla, "a", "n", "l", i_dotless, "u", "r", "f", "a">>>>,
      <<<<"k", "o", "c", "a", "e", "l", "i">>, <<"K", "o", "c", "a", "e", "l", "i">>>>,
      <<<<"m", "e", "r", "s", "i", "n">>, <<"M", "e", "r", "s", "i", "n">>>>,
      <<<<"d", "i", "y", "a", "r", "b", "a", "k", i_dotless, "r">>, <<"D", "i", "y", "a", "r", "b", "a", "k", i_dotless, "r">>>>,
      <<<<"k", "a", "y", "s", "e", "r", "i">>, <<"K", "a", "y", "s", "e", "r", "i">>>>,
      <<<<"e", "s", "k", "i", s_cedilla, "e", "h", "i", "r">>, <<"E", "s", "k", "i", s_cedilla, "e", "h", "i", "r">>>>,
      <<<<"s", "a", "m", "s", "u", "n">>, <<"S", "a", "m", "s", "u", "n">>>>,
      <<<<"d", "e", "n", "i", "z", "l", "i">>, <<"D", "e", "n", "i", "z", "l", "i">>>>,
      <<<<"a", "d", "a", "p", "a", "z", "a", "r", i_dotless>>, <<"S", "a", "k", "a", "r", "y", "a">>>>,
      <<<<"m", "a", "l", "a", "t", "y", "a">>, <<"M", "a", "l", "a", "t", "y", "a">>>>,
      <<<<"k", "a", "h", "r", "a", "m", "a", "n", "m", "a", "r", "a", s_cedilla>>, <<"K", "a", "h", "r", "a", "m", "a", "n", "m", "a", "r", "a", s_cedilla>>>>,
      <<<<"e", "r", "z", "u", "r", "u", "m">>, <<"E", "r", "z", "u", "r", "u", "m">>>>,
      <<<<"v", "a", "n">>, <<"V", "a", "n">>>>,
      <<<<"b", "a", "t", "m", "a", "n">>, <<"B", "a", "t", "m", "a", "n">>>>,
      <<<<"e", "l", "a", "z", i_dotless, g_breve>>, <<"E", "l", "a", "z", i_dotless, g_breve>>>>,
      <<<<"e", "r", "z", "i", "n", "c", "a", "n">>, <<"E", "r", "z", "i", "n", "c", "a", "n">>>>,
      <<<<"s", "i", "v", "a", "s">>, <<"S", "i", "v", "a", "s">>>>,
      <<<<c_cedilla, "o", "r", "u", "m">>, <<C_cedilla, "o", "r", "u", "m">>>>,
      <<<<"t", "o", "k", "a", "t">>, <<"T", "o", "k", "a", "t">>>>,
      <<<<"o", "r", "d", "u">>, <<"O", "r", "d", "u">>>>,
      <<<<"g", "i", "r", "e", "s", "u", "n">>, <<"G", "i", "r", "e", "s", "u", "n">>>>,
      <<<<"t", "r", "a", "b", "z", "o", "n">>, <<"T", "r", "a", "b", "z", "o", "n">>>>,
      <<<<"r", "i", "z", "e">>, <<"R", "i", "z", "e">>>>,
      <<<<"a", "r", "t", "v", "i", "n">>, <<"A", "r", "t", "v", "i", "n">>>>,
      <<<<"g", u_umlaut, "m", u_umlaut, s_cedilla, "h", "a", "n", "e">>, <<"G", u_umlaut, "m", u_umlaut, s_cedilla, "h", "a", "n", "e">>>>,
      <<<<"b", "a", "y", "b", "u", "r", "t">>, <<"B", "a", "y", "b", "u", "r", "t">>>>,
      <<<<"k", "a", "s", "t", "a", "m", "o", "n", "u">>, <<"K", "a", "s", "t", "a", "m", "o", "n", "u">>>>,
      <<<<"s", "i", "n", "o", "p">>, <<"S", "i", "n", "o", "p">>>>,
      <<<<c_cedilla, "a", "n", "k", i_dotless, "r", i_dotless>>, <<C_cedilla, "a", "n", "k", i_dotless, "r", i_dotless>>>>,
      <<<<"a", "m", "a", "s", "y", "a">>, <<"A", "m", "a", "s", "y", "a">>>>,
      <<<<"y", "o", "z", "g", "a", "t">>, <<"Y", "o", "z", "g", "a", "t">>>>,
      <<<<"k", i_dotless, "r", s_cedilla, "e", "h", "i", "r">>, <<"K", i_dotless, "r", s_cedilla, "e", "h", "i", "r">>>>,
      <<<<"n", "e", "v", s_cedilla, "e", "h", "i", "r">>, <<"N", "e", "v", s_cedilla, "e", "h", "i", "r">>>>,
      <<<<"k", i_dotless, "r", i_dotless, "k", "k", "a", "l", "e">>, <<"K", i_dotless, "r", i_dotless, "k", "k", "a", "l", "e">>>>,
      <<<<"a", "k", "s", "a", "r", "a", "y">>, <<"A", "k", "s", "a", "r", "a", "y">>>>,
      <<<<"n", "i", g_breve, "d", "e">>, <<"N", "i", g_breve, "d", "e">>>>,
      <<<<"k", "a", "r", "s">>, <<"K", "a", "r", "s">>>>,
      <<<<"i", g_breve, "d", i_dotless, "r">>, <<"I", g_breve, "d", i_dotless, "r">>>>,
      <<<<"a", g_breve, "r", i_dotless>>, <<"A", g_breve, "r", i_dotless>>>>,
      <<<<"m", "u", s_cedilla>>, <<"M", "u", s_cedilla>>>>,
      <<<<"b", "i", "t", "l", "i", "s">>, <<"B", "i", "t", "l", "i", "s">>>>,
      <<<<"h", "a", "k", "k", "a", "r", "i">>, <<"H", "a", "k", "k", "a", "r", "i">>>>,
      <<<<s_cedilla, i_dotless, "r", "n", "a", "k">>, <<S_cedilla, i_dotless, "r", "n", "a", "k">>>>,
      <<<<"m", "a", "r", "d", "i", "n">>, <<"M", "a", "r", "d", "i", "n">>>>,
      <<<<"s", "i", "i", "r", "t">>, <<"S", "i", "i", "r", "t">>>>,
      <<<<"a", "d", i_dotless, "y", "a", "m", "a", "n">>, <<"A", "d", i_dotless, "y", "a", "m", "a", "n">>>>,
      <<<<"k", "i", "l", "i", "s">>, <<"K", "i", "l", "i", "s">>>>,
      <<<<"o", "s", "m", "a", "n", "i", "y", "e">>, <<"O", "s", "m", "a", "n", "i", "y", "e">>>>,
      <<<<"h", "a", "t", "a", "y">>, <<"H", "a", "t", "a", "y">>>>,
      <<<<"b", "a", "l", i_dotless, "k", "e", "s", "i", "r">>, <<"B", "a", "l", i_dotless, "k", "e", "s", "i", "r">>>>,
      <<<<c_cedilla, "a", "n", "a", "k", "k", "a", "l", "e">>, <<C_cedilla, "a", "n", "a", "k", "k", "a", "l", "e">>>>,
      <<<<"e", "d", "i", "r", "n", "e">>, <<"E", "d", "i", "r", "n", "e">>>>,
      <<<<"k", i_dotless, "r", "k", "l", "a", "r", "e", "l", "i">>, <<"K", i_dotless, "r", "k", "l", "a", "r", "e", "l", "i">>>>,
      <<<<"t", "e", "k", "i", "r", "d", "a", g_breve>>, <<"T", "e", "k", "i", "r", "d", "a", g_breve>>>>,
      <<<<"b", "o", "l", "u">>, <<"B", "o", "l", "u">>>>,
      <<<<"d", u_umlaut, "z", "c", "e">>, <<"D", u_umlaut, "z", "c", "e">>>>,
      <<<<"z", "o", "n", "g", "u", "l", "d", "a", "k">>, <<"Z", "o", "n", "g", "u", "l", "d", "a", "k">>>>,
      <<<<"k", "a", "r", "a", "b", u_umlaut, "k">>, <<"K", "a", "r", "a", "b", u_umlaut, "k">>>>,
      <<<<"b", "a", "r", "t", i_dotless, "n">>, <<"B", "a", "r", "t", i_dotless, "n">>>>,
      <<<<"a", "f", "y", "o", "n", "k", "a", "r", "a", "h", "i", "s", "a", "r">>, <<"A", "f", "y", "o", "n", "k", "a", "r", "a", "h", "i", "s", "a", "r">>>>,
      <<<<"a", "f", "y", "o", "n">>, <<"A", "f", "y", "o", "n", "k", "a", "r", "a", "h", "i", "s", "a", "r">>>>,
      <<<<"k", u_umlaut, "t", "a", "h", "y", "a">>, <<"K", u_umlaut, "t", "a", "h", "y", "a">>>>,
      <<<<"m", "a", "n", "i", "s", "a">>, <<"M", "a", "n", "i", "s", "a">>>>,
      <<<<"u", s_cedilla, "a", "k">>, <<"U", s_cedilla, "a", "k">>>>,
      <<<<"a", "y", "d", i_dotless, "n">>, <<"A", "y", "d", i_dotless, "n">>>>,
      <<<<"m", "u", g_breve, "l", "a">>, <<"M", "u", g_breve, "l", "a">>>>,
      <<<<"b", "u", "r", "d", "u", "r">>, <<"B", "u", "r", "d", "u", "r">>>>,
      <<<<"i", "s", "p", "a", "r", "t", "a">>, <<"I", "s", "p", "a", "r", "t", "a">>>>,
      <<<<"k", "a", "r", "a", "m", "a", "n">>, <<"K", "a", "r", "a", "m", "a", "n">>>>
    >>

\* the alternatives of the suffix pattern
suffix_names ==
    { <<"T", u_umlaut, "r", "k", "i", "y", "e">>,
      <<"O", "s", "m", "a", "n", "l", i_dotless, " ", I_dotted, "m", "p", "a", "r", "a", "t", "o", "r", "l", "u", g_breve, "u">>,
      <<"O", "s", "m", "a", "n", "l", i_dotless, " ", "D", "e", "v", "l", "e", "t", "i">>,
      <<"O", "s", "m", "a", "n", "l", i_dotless>>,
      <<"T", "u", "r", "k", "e", "y">> }

\* the names clean_city_name takes for a country or state
country_names ==
    { <<"T", u_umlaut, "r", "k", "i", "y", "e">>,
      <<"T", "u", "r", "k", "e", "y">>,
      <<"O", "s", "m", "a", "n", "l", i_dotless>>,
      <<I_dotted, "m", "p", "a", "r", "a", "t", "o", "r", "l", "u", g_breve, "u">>,
      <<"D", "e", "v", "l", "e", "t", "i">>,
      <<"M", "a", "k", "e", "d", "o", "n", "y", "a">>,
      <<"Y", "u", "n", "a", "n", "i", "s", "t", "a", "n">>,
      <<"B", "o", "s", "n", "a">>,
      <<"B", "u", "l", "g", "a", "r", "i", "s", "t", "a", "n">>,
      <<"M", i_dotless, "s", i_dotless, "r">>,
      <<"S", "u", "r", "i", "y", "e">> }

txt_Unknown == <<"U", "n", "k", "n", "o", "w", "n">>
txt_question == <<"?">>

\* the pattern  ,\s*(Türkiye|...|Turkey).*$  matches s from index k: the
\* rest of the line must run to the end of s (or to its final newline)
CountrySuffixAt(s, k) ==
    /\ s[k] = ","
    /\ With(k + 1 + RunLength(s, k + 1, IsSpace), LAMBDA a :
          /\ \E name \in suffix_names : OccursAt(s, name, a)
          /\ { j \in a..Len(s) : s[j] = "\n" } \subseteq {Len(s)})

\* re.sub(r',\s*(...).*$', '', s)
RemoveCountrySuffix(s) ==
    With({ k \in 1..Len(s) : CountrySuffixAt(s, k) }, LAMBDA hits :
        IF hits = {} THEN s
        ELSE SubSeq(s, 1, Min(hits) - 1)
                 \o (IF s[Len(s)] = "\n" THEN <<"\n">> ELSE <<>>))

RECURSIVE Split(_, _)
\* s.split(sep) for a one-character sep
Split(s, sep) ==
    With({ k \in 1..Len(s) : s[k] = sep }, LAMBDA at :
        IF at = {} THEN <<s>>
        ELSE <<SubSeq(s, 1, Min(at) - 1)>>
                 \o Split(SubSeq(s, Min(at) + 1, Len(s)), sep))

\* [p.strip() for p in place.split(',')]
StrippedParts(place) ==
    With(Split(place, ","), LAMBDA ps : [i \in 1..Len(ps) |-> Strip(ps[i])])

\* the keys a lower-cased part is looked up under: the dict lookup
DirectMatches(part_lower) ==
    { i \in 1..Len(CITY_MAPPING) : CITY_MAPPING[i][1] = part_lower }

\* key in part_lower or part_lower in key
PartialMatches(part_lower) ==
    { i \in 1..Len(CITY_MAPPING) :
        \/ Contains(part_lower, CITY_MAPPING[i][1])
        \/ Contains(CITY_MAPPING[i][1], part_lower) }

\* what one pass of the loop over the parts returns for a part, if it returns
MatchPart(part) ==
    With(Lower(part), LAMBDA part_lower :
        IF DirectMatches(part_lower) # {}
        THEN Some(CITY_MAPPING[Min(DirectMatches(part_lower))][2])
        ELSE With(PartialMatches(part_lower), LAMBDA partial :
                 IF partial = {} THEN None
                 ELSE Some(CITY_MAPPING[Min(partial)][2])))

\* the largest element of a non-empty set of indexes
Largest(ks) == CHOOSE k \in ks : \A j \in ks : k >= j

\* the loop over reversed(parts) and the fall-back after it
MatchParts(parts) ==
    With({ i \in 1..Len(parts) : MatchPart(parts[i]) # None }, LAMBDA matched :
        IF matched # {} THEN MatchPart(parts[Largest(matched)])
        ELSE Some(parts[Len(parts)]))

normalize_city(birthplace) ==
    IF birthplace = <<>> \/ birthplace = txt_question THEN None
    ELSE MatchParts(StrippedParts(RemoveCountrySuffix(birthplace)))

\* the last part, whatever it names
CityOfLastPart(parts) ==
    Strip(parts[Len(parts)])

\* the city clean_city_name picks out of the stripped parts
CityOfParts(parts) ==
    IF Len(parts) >= 2
    THEN IF Strip(parts[Len(parts)]) \in country_names
         THEN Strip(parts[Len(parts) - 1])
         ELSE Strip(parts[Len(parts)])
    ELSE Strip(parts[1])

clean_city_name(birthplace) ==
    IF birthplace = <<>> \/ birthplace = txt_question THEN txt_Unknown
    ELSE CityOfParts(StrippedParts(RemoveCountrySuffix(birthplace)))

\* the comma-separated parts birthplaces are made of, and their endings
MaxPlaceParts == 2
PlaceParts ==
    { <<"A", "n", "k", "a", "r", "a">>,
      <<"A", "N", "K", "A", "R", "A">>,
      <<"K", "a", "l", "e">>,
      <<"S", "e", "l", "a", "n", "i", "k">>,
      <<"Y", "u", "n", "a", "n", "i", "s", "t", "a", "n">>,
      <<"K", "u", "z", "e", "y", " ", "A", "n", "k", "a", "r", "a">>,
      <<I_dotted, "s", "t", "a", "n", "b", "u", "l">>,
      <<>>,
      <<"A", "d", "a", "p", "a", "z", "a", "r", i_dotless>>,
      <<"U", "r", "f", "a">> }
PlaceEndings ==
    { <<>>,
      <<",", " ", "T", u_umlaut, "r", "k", "i", "y", "e">>,
      <<",", "O", "s", "m", "a", "n", "l", i_dotless, " ", I_dotted, "m", "p", "a", "r", "a", "t", "o", "r", "l", "u", g_breve, "u">>,
      <<",", " ", "T", "u", "r", "k", "e", "y", " ", "(", "b", "u", "g", u_umlaut, "n", ")">> }
Birthplaces ==
    { JoinComma(ps) \o ending :
        ps \in UNION { [1..n -> PlaceParts] : n \in 1..MaxPlaceParts },
        ending \in PlaceEndings }
      \cup {txt_question}

CityInit ==
    /\ n_birthplace \in Birthplaces
    /\ n_called = {}
    /\ n_normalized = None
    /\ n_cleaned = <<>>

\* get_birthplace_counts: city = normalize_city(row[0])
NormalizeCity ==
    /\ "normalize_city" \notin n_called
    /\ n_normalized' = normalize_city(n_birthplace)
    /\ n_called' = n_called \cup {"normalize_city"}
    /\ UNCHANGED <<n_birthplace, n_cleaned, notCity>>

\* get_all_stats: city = clean_city_name(birthplace)
CleanCity ==
    /\ "clean_city_name" \notin n_called
    /\ n_cleaned' = clean_city_name(n_birthplace)
    /\ n_called' = n_called \cup {"clean_city_name"}
    /\ UNCHANGED <<n_birthplace, n_normalized, notCity>>

InitCity == CityInit /\ IdleButCity
NextCity == NormalizeCity \/ CleanCity
SpecCity == InitCity /\ [][NextCity]_vars

\* the keys a part matches as the description of normalize_city has it: the
\* keys equal to the lower-cased part, else the keys it contains
DescribedMatches(part) ==
    With(Lower(part), LAMBDA part_lower :
        IF DirectMatches(part_lower) # {} THEN DirectMatches(part_lower)
        ELSE { i \in 1..Len(CITY_MAPPING) : Contains(part_lower, CITY_MAPPING[i][1]) })

\* the results that description allows for the parts of a birthplace
DescribedCities(parts) ==
    With({ i \in 1..Len(parts) : DescribedMatches(parts[i]) # {} }, LAMBDA matched :
        IF matched = {} THEN {parts[Len(parts)]}
        ELSE { CITY_MAPPING[i][2] : i \in DescribedMatches(parts[Largest(matched)]) })

\* C12: normalize_city returns None for an empty birthplace or '?'; otherwise
\* it returns the province of a key that the last matching part equals or,
\* failing that, contains, and the last part when no part matches a key.
C12_NormalizedCity ==
    "normalize_city" \in n_called =>
        IF n_birthplace = <<>> \/ n_birthplace = txt_question
        THEN n_normalized = None
        ELSE /\ n_normalized # None
             /\ n_normalized[1] \in
                    DescribedCities(StrippedParts(RemoveCountrySuffix(n_birthplace)))

\* the birthplace without its country suffix, by the commas in it
PlaceOf(birthplace) == RemoveCountrySuffix(birthplace)
CommasOf(place) == { k \in 1..Len(place) : place[k] = "," }
LastPartOf(place) ==
    Strip(SubSeq(place, Largest(CommasOf(place)) + 1, Len(place)))
PartBeforeLastOf(place) ==
    With(Largest(CommasOf(place)), LAMBDA last :
        With({ k \in CommasOf(place) : k < last }, LAMBDA before :
            Strip(SubSeq(place, IF before = {} THEN 1 ELSE Largest(before) + 1,
                         last - 1))))

\* C16: clean_city_name returns 'Unknown' for an empty birthplace or '?';
\* otherwise, with the country suffix removed, it returns the last
\* comma-separated part, or the part before it when the last part is one of
\* the listed country names, and the whole stripped string when there is no
\* comma.
C16_CleanedCity ==
    "clean_city_name" \in n_called =>
        IF n_birthplace = <<>> \/ n_birthplace = txt_question
        THEN n_cleaned = txt_Unknown
        ELSE With(PlaceOf(n_birthplace), LAMBDA place :
                 IF CommasOf(place) = {} THEN n_cleaned = Strip(place)
                 ELSE IF LastPartOf(place) \in country_names
                      THEN n_cleaned = PartBeforeLastOf(place)
                      ELSE n_cleaned = LastPartOf(place))

\* clean_city_name has run on a birthplace whose last part, with the suffix
\* removed, is a country name, and has returned the part before it
C16_Witness ==
    /\ "clean_city_name" \in n_called
    /\ n_birthplace = <<"S", "e", "l", "a", "n", "i", "k", ",", " ", "Y", "u", "n", "a", "n", "i", "s", "t", "a", "n", ",", " ", "T", u_umlaut, "r", "k", "i", "y", "e">>
    /\ n_cleaned = <<"S", "e", "l", "a", "n", "i", "k">>

-----------------------------------------------------------------------------
(* count_unique_people.py *)

\* the tables of the database, in sorted order, and the links of their rows
MaxLinkRows == 2
TableOrder == <<"president", "prime_minister">>
LinkCells == { None, Some(""), Some("wiki/Ismet_Inonu"), Some("wiki/Celal_Bayar") }
LinkColumns == UNION { [1..n -> LinkCells] : n \in 0..MaxLinkRows }

\* sorted(tables)
SortedTables(tables) ==
    SelectSeq(TableOrder, LAMBDA t : t \in tables)

\* SELECT COUNT(*) FROM table
CountRows(column) == Len(column)

\* the values WHERE wikipedia_link IS NOT NULL AND wikipedia_link != '' keeps
LinksOf(column) ==
    { column[i][1] : i \in { j \in 1..Len(column) :
                               column[j] # None /\ column[j] # Some("") } }

\* SELECT COUNT(DISTINCT wikipedia_link) FROM table WHERE ...
CountDistinctLinks(column) == Cardinality(LinksOf(column))

UniqInit ==
    /\ u_pc = "loop"
    /\ \E tables \in SUBSET { TableOrder[i] : i \in 1..Len(TableOrder) } :
          /\ u_db \in [tables -> LinkColumns]
          /\ u_todo = SortedTables(tables)
    /\ u_total_records = 0
    /\ u_total_unique = 0
    /\ u_summary = None

\* one pass of the loop over the sorted tables
CountTable ==
    /\ u_pc = "loop"
    /\ u_todo # <<>>
    /\ u_total_records' = u_total_records + CountRows(u_db[Head(u_todo)])
    /\ u_total_unique' = u_total_unique + CountDistinctLinks(u_db[Head(u_todo)])
    /\ u_todo' = Tail(u_todo)
    /\ UNCHANGED <<u_pc, u_db, u_summary, notUniq>>

\* the summary lines: total records, unique people, duplicate appointments
PrintSummary ==
    /\ u_pc = "loop"
    /\ u_todo = <<>>
    /\ u_summary' = Some([total_records |-> u_total_records,
                          unique_people |-> u_total_unique,
                          duplicates |-> u_total_records - u_total_unique])
    /\ u_pc' = "done"
    /\ UNCHANGED <<u_db, u_todo, u_total_records, u_total_unique, notUniq>>

InitUniq == UniqInit /\ IdleButUniq
NextUniq == CountTable \/ PrintSummary
SpecUniq == InitUniq /\ [][NextUniq]_vars

\* the distinct non-empty links of the whole database, and its rows
AllLinks == UNION { LinksOf(u_db[t]) : t \in DOMAIN u_db }
RECURSIVE SumRows(_)
SumRows(tables) ==
    IF tables = {} THEN 0
    ELSE With(CHOOSE t \in tables : TRUE, LAMBDA t :
             Len(u_db[t]) + SumRows(tables \ {t}))

\* C13: the printed number of unique people is the number of distinct
\* non-empty wikipedia_link values across all tables, and the printed number
\* of duplicate appointments is the total of records minus that number.
C13_UniquePeopleAcrossTables ==
    u_pc = "done" =>
        /\ u_summary[1].unique_people = Cardinality(AllLinks)
        /\ u_summary[1].duplicates = SumRows(DOMAIN u_db) - Cardinality(AllLinks)

-----------------------------------------------------------------------------
(* merge_all_data.py *)

csv_chiefs == <<"c", "h", "i", "e", "f", "s", "_", "o", "f", "_", "s", "t", "a", "f", "f", ".", "c", "s", "v">>
csv_army == <<"a", "r", "m", "y", "_", "c", "o", "m", "m", "a", "n", "d", "e", "r", "s", ".", "c", "s", "v">>
csv_all_commanders == <<"a", "l", "l", "_", "c", "o", "m", "m", "a", "n", "d", "e", "r", "s", ".", "c", "s", "v">>

force_Chiefs == <<"C", "h", "i", "e", "f", "s">>
force_Army == <<"A", "r", "m", "y">>
force_Navy == <<"N", "a", "v", "y">>
force_Air_Force == <<"A", "i", "r", " ", "F", "o", "r", "c", "e">>

\* the characters of the cells that get compared, in code point order
CodePointOrder ==
    <<" ", "-">> \o <<"0", "1", "2", "3", "4", "5", "6", "7", "8", "9">>
        \o <<"A", "B", "C", "D", "E", "F", "G", "H", "I", "J", "K", "L", "M", "N", "O", "P", "Q", "R", "S", "T", "U", "V", "W", "X", "Y", "Z">>
        \o <<"_">> \o <<"a", "b", "c", "d", "e", "f", "g", "h", "i", "j", "k", "l", "m", "n", "o", "p", "q", "r", "s", "t", "u", "v", "w", "x", "y", "z">>
CodePointRank ==
    [c \in { CodePointOrder[i] : i \in 1..Len(CodePointOrder) } |->
        CHOOSE i \in 1..Len(CodePointOrder) : CodePointOrder[i] = c]

\* a < b for two strs
StrLess(a, b) ==
    With({ k \in 1..Len(a) : k <= Len(b) /\ a[k] # b[k] }, LAMBDA differ :
        IF differ = {} THEN Len(a) < Len(b)
        ELSE CodePointRank[a[Min(differ)]] < CodePointRank[b[Min(differ)]])

\* one cell as pd.read_csv reads it, and as to_csv writes it
read_cell(text) == IF text \in NA_VALUES THEN None ELSE Some(text)
write_cell(value) == IF value = None THEN <<>> ELSE value[1]

\* pd.read_csv(path) for rows that map column names to cell texts
read_frame(rows) ==
    [k \in 1..Len(rows) |-> [c \in DOMAIN rows[k] |-> read_cell(rows[k][c])]]

\* df.to_csv(path, index=False)
write_frame(df) ==
    [k \in 1..Len(df) |-> [c \in DOMAIN df[k] |-> write_cell(df[k][c])]]

\* df[column] = value
WithColumn(df, column, value) ==
    [k \in 1..Len(df) |->
        [c \in DOMAIN df[k] \cup {column} |-> IF c = column THEN value ELSE df[k][c]]]

\* the name a column has after df.rename(columns={'start_year': 'start_date',
\* 'end_year': 'end_date'}), and the column that gets a name by it
Renamed(c) ==
    CASE c = "start_year" -> "start_date" [] c = "end_year" -> "end_date" [] OTHER -> c
RenameYearColumns(df) ==
    [k \in 1..Len(df) |->
        [c \in { Renamed(o) : o \in DOMAIN df[k] } |->
            df[k][CHOOSE o \in DOMAIN df[k] : Renamed(o) = c]]]

common_cols == {"name", "birthplace", "start_date", "end_date", "force"}

\* df[common_cols]
SelectColumns(df) ==
    [k \in 1..Len(df) |-> [c \in common_cols |-> df[k][c]]]

\* a date: <<year, month, day, nanoseconds into the day>>
IsLeap(y) == (y % 4 = 0 /\ y % 100 # 0) \/ y % 400 = 0
DaysInMonth(y, m) ==
    CASE m \in {4, 6, 9, 11} -> 30
      [] m = 2 -> IF IsLeap(y) THEN 29 ELSE 28
      [] OTHER -> 31

\* text is a date written YYYY-MM-DD
IsIsoDate(text) ==
    /\ Len(text) = 10
    /\ text[5] = "-" /\ text[8] = "-"
    /\ \A k \in {1, 2, 3, 4, 6, 7, 9, 10} : IsDigit(text[k])
    /\ DigitsValue(SubSeq(text, 6, 7)) \in 1..12
    /\ DigitsValue(SubSeq(text, 9, 10))
           \in 1..DaysInMonth(DigitsValue(SubSeq(text, 1, 4)),
                              DigitsValue(SubSeq(text, 6, 7)))

\* text is a year of four digits
IsYearText(text) ==
    Len(text) = 4 /\ \A k \in 1..4 : IsDigit(text[k])

\* How pd.to_datetime reads a year cell in a column that also holds dates
\* depends on the pandas installed: not a date ("NaT"), a number of
\* nanoseconds after 1970-01-01 ("epoch"), or the first day of the year.
YearReadings == {"NaT", "epoch", "year"}

\* pd.to_datetime(cell, errors='coerce') for a cell that is missing, a date
\* written YYYY-MM-DD, a year, or text that is no date
to_datetime(cell, reading) ==
    IF cell = None THEN None
    ELSE IF IsIsoDate(cell[1])
    THEN Some(<<DigitsValue(SubSeq(cell[1], 1, 4)), DigitsValue(SubSeq(cell[1], 6, 7)),
                DigitsValue(SubSeq(cell[1], 9, 10)), 0>>)
    ELSE IF IsYearText(cell[1]) /\ reading = "epoch"
    THEN Some(<<1970, 1, 1, DigitsValue(cell[1])>>)
    ELSE IF IsYearText(cell[1]) /\ reading = "year"
    THEN Some(<<DigitsValue(cell[1]), 1, 1, 0>>)
    ELSE None

\* date a is earlier than date b
DateLess(a, b) ==
    \E k \in 1..4 : a[k] < b[k] /\ \A j \in 1..(k - 1) : a[j] = b[j]

DigitChar(n) == <<"0", "1", "2", "3", "4", "5", "6", "7", "8", "9">>[n + 1]

RECURSIVE ZeroPadded(_, _)
\* the decimal digits of n, padded with zeros to a width
ZeroPadded(n, width) ==
    IF width = 0 THEN <<>>
    ELSE ZeroPadded(n \div 10, width - 1) \o <<DigitChar(n % 10)>>

\* .dt.strftime('%Y-%m-%d') on one value: a missing date stays missing
strftime(date) ==
    IF date = None THEN None
    ELSE Some(ZeroPadded(date[1][1], 4) \o <<"-">> \o ZeroPadded(date[1][2], 2)
                  \o <<"-">> \o ZeroPadded(date[1][3], 2))

\* merged_df['start_date'].replace('NaT', '') on one value
ReplaceNaT(value) ==
    IF value = Some(<<"N", "a", "T">>) THEN Some(<<>>) ELSE value

\* row a sorts before row b by start_date alone
RowBeforeByDate(a, b) ==
    /\ a.start_date # None
    /\ b.start_date = None \/ DateLess(a.start_date[1], b.start_date[1])

\* row a sorts before row b by ['force', 'start_date'], missing dates last;
\* the start_date of the rows is a date here
RowBefore(a, b) ==
    IF a.force # b.force THEN StrLess(a.force[1], b.force[1])
    ELSE /\ a.start_date # None
         /\ b.start_date = None \/ DateLess(a.start_date[1], b.start_date[1])

\* the rows that come to stand before row i when df is sorted: the sort
\* keeps rows that compare equal in the order they had
RowsBefore(df, i) ==
    { j \in 1..Len(df) :
        \/ RowBefore(df[j], df[i])
        \/ ~RowBefore(df[i], df[j]) /\ j < i }

\* merged_df.sort_values(['force', 'start_date'])
sort_values(df) ==
    With([i \in 1..Len(df) |-> Cardinality(RowsBefore(df, i))], LAMBDA before :
        [k \in 1..Len(df) |-> df[CHOOSE i \in 1..Len(df) : before[i] = k - 1]])

\* df with its start_date column mapped by one of the conversions
ParsedStart(df, reading) ==
    [k \in 1..Len(df) |->
        [df[k] EXCEPT !["start_date"] = to_datetime(df[k]["start_date"], reading)]]
FormattedStart(df) ==
    [k \in 1..Len(df) |->
        [df[k] EXCEPT !["start_date"] = ReplaceNaT(strftime(df[k]["start_date"]))]]

\* the rows of the input files
MaxMergeRows == 2
commander_names ==
    [chiefs |-> <<<<"F", "e", "v", "z", "i", " ", "C", "a", "k", "m", "a", "k">>, <<"C", "e", "m", "a", "l", " ", "G", "u", "r", "s", "e", "l">>, <<"C", "e", "v", "d", "e", "t", " ", "S", "u", "n", "a", "y">>>>,
     army |-> <<<<"N", "u", "r", "i", " ", "Y", "a", "m", "u", "t">>, <<"A", "l", "i", " ", "K", "e", "s", "k", "i", "n", "e", "r">>, <<"F", "a", "r", "u", "k", " ", "G", "u", "r", "l", "e", "r">>>>,
     naval |-> <<<<"M", "e", "h", "m", "e", "t", " ", "A", "l", "i", " ", "U", "l", "g", "e", "n">>, <<"S", "a", "d", "i", "k", " ", "A", "l", "t", "i", "n", "c", "a", "n">>, <<"N", "e", "c", "d", "e", "t", " ", "U", "r", "a", "n">>>>,
     air_force |-> <<<<"Z", "e", "k", "i", " ", "D", "o", "g", "a", "n">>, <<"F", "e", "v", "z", "i", " ", "U", "c", "a", "n", "e", "r">>, <<"I", "r", "f", "a", "n", " ", "T", "a", "n", "s", "e", "l">>>>]
place_Selanik == <<"S", "e", "l", "a", "n", "i", "k">>
year_1960 == <<"1", "9", "6", "0">>
StartCells ==
    [chiefs |-> { <<"1", "9", "6", "0", "-", "0", "5", "-", "2", "7">>,
                  <<"1", "9", "2", "0", "-", "0", "8", "-", "0", "3">>,
                  <<>> },
     army |-> { <<"1", "9", "5", "0", "-", "0", "6", "-", "0", "6">> },
     naval |-> { <<"1", "9", "5", "0">>, <<"1", "9", "4", "9">> },
     air_force |-> { <<"1", "9", "4", "9">> }]

\* chiefs_of_staff.csv and army_commanders.csv: no, name, start_date,
\* end_date, birthplace (and branch)
DatedRows(file, starts) ==
    [k \in 1..Len(starts) |->
        [no |-> <<DigitChar(k)>>, name |-> commander_names[file][k],
         start_date |-> starts[k], end_date |-> year_1960,
         birthplace |-> place_Selanik]]

\* naval_commanders.csv and air_force_commanders.csv: name, birthplace,
\* start_year, end_year, status, url
YearRows(file, starts) ==
    [k \in 1..Len(starts) |->
        [name |-> commander_names[file][k], birthplace |-> place_Selanik,
         start_year |-> starts[k], end_year |-> year_1960,
         status |-> st_found, url |-> <<>>]]

StartColumns(file) ==
    UNION { [1..n -> StartCells[file]] : n \in 0..MaxMergeRows }

MergeInit ==
    /\ m_pc = "start"
    /\ \E chiefs \in StartColumns("chiefs"), army \in StartColumns("army"),
          naval \in StartColumns("naval"), air_force \in StartColumns("air_force") :
          m_files = (PathJoin(data_dir, csv_chiefs) :> DatedRows("chiefs", chiefs))
                 @@ (PathJoin(data_dir, csv_army) :> DatedRows("army", army))
                 @@ (PathJoin(data_dir, csv_naval) :> YearRows("naval", naval))
                 @@ (PathJoin(data_dir, csv_air_force) :> YearRows("air_force", air_force))
    /\ m_year_reading \in YearReadings
    /\ m_merged = <<>>

\* one input file read, given its force, with the columns renamed and selected
ForceFrame(file, force) ==
    SelectColumns(RenameYearColumns(
        WithColumn(read_frame(m_files[PathJoin(data_dir, file)]), "force", Some(force))))

\* main up to pd.concat
MergeFrames ==
    /\ m_pc = "start"
    /\ m_merged' = ForceFrame(csv_chiefs, force_Chiefs)
                      \o ForceFrame(csv_army, force_Army)
                      \o ForceFrame(csv_naval, force_Navy)
                      \o ForceFrame(csv_air_force, force_Air_Force)
    /\ m_pc' = "merged"
    /\ UNCHANGED <<m_files, m_year_reading, notMerge>>

\* main from pd.to_datetime to to_csv
SortAndSave ==
    /\ m_pc = "merged"
    /\ m_merged' = FormattedStart(sort_values(ParsedStart(m_merged, m_year_reading)))
    /\ m_files' = (PathJoin(data_dir, csv_all_commanders) :> write_frame(m_merged'))
                     @@ m_files
    /\ m_pc' = "done"
    /\ UNCHANGED <<m_year_reading, notMerge>>

InitMerge == MergeInit /\ IdleButMerge
NextMerge == MergeFrames \/ SortAndSave
SpecMerge == InitMerge /\ [][NextMerge]_vars

\* the written file, and the rows of it that carry a force
AllCommanders == m_files[PathJoin(data_dir, csv_all_commanders)]
RowsOfForce(force) ==
    SelectSeq(AllCommanders, LAMBDA row : row["force"] = force)

\* the rows of a force are the rows of its input file: as many, and each
\* name of the file with its birthplace and end
SameRows(file, force, end_column) ==
    With(m_files[PathJoin(data_dir, file)], LAMBDA rows :
        With(RowsOfForce(force), LAMBDA found :
            /\ Len(found) = Len(rows)
            /\ \A k \in 1..Len(rows) : \E i \in 1..Len(found) :
                  /\ found[i]["name"] = rows[k]["name"]
                  /\ found[i]["birthplace"] = rows[k]["birthplace"]
                  /\ found[i]["end_date"] = rows[k][end_column]))

\* start_date a may stand before start_date b: empty cells come last
StartOrdered(a, b) ==
    b = <<>> \/ (a # <<>> /\ ~StrLess(b, a))

\* C14: all_commanders.csv holds one row for each row of the four input
\* files, with exactly the columns name, birthplace, start_date, end_date and
\* force, the force naming the file of the row, and its rows are ordered by
\* force and then by start_date.
C14_MergedFile ==
    m_pc = "done" =>
        /\ SameRows(csv_chiefs, force_Chiefs, "end_date")
        /\ SameRows(csv_army, force_Army, "end_date")
        /\ SameRows(csv_naval, force_Navy, "end_year")
        /\ SameRows(csv_air_force, force_Air_Force, "end_year")
        /\ With(AllCommanders, LAMBDA written :
              /\ Len(written) = Len(m_files[PathJoin(data_dir, csv_chiefs)])
                                  + Len(m_files[PathJoin(data_dir, csv_army)])
                                  + Len(m_files[PathJoin(data_dir, csv_naval)])
                                  + Len(m_files[PathJoin(data_dir, csv_air_force)])
              /\ \A k \in 1..Len(written) : DOMAIN written[k] = common_cols
              /\ \A i, j \in 1..Len(written) : i < j =>
                    \/ StrLess(written[i]["force"], written[j]["force"])
                    \/ /\ written[i]["force"] = written[j]["force"]
                       /\ StartOrdered(written[i]["start_date"],
                                       written[j]["start_date"]))

\* the file has been written from inputs in which a later chief of staff
\* stands before an earlier one and every file has a row
C14_Witness ==
    /\ m_pc = "done"
    /\ Len(AllCommanders) >= 5
    /\ \E i, j \in 1..Len(m_files[PathJoin(data_dir, csv_chiefs)]) :
          /\ i < j
          /\ StrLess(m_files[PathJoin(data_dir, csv_chiefs)][j]["start_date"],
                     m_files[PathJoin(data_dir, csv_chiefs)][i]["start_date"])
    /\ AllCommanders[1]["force"] = force_Air_Force

-----------------------------------------------------------------------------
(* scripts/test_biographical_scraper.py: its own extract_birth_info *)

\* the alternatives of \b(1\d{3}|20\d{2})\b
TestYearPrefixes == { <<"1">>, <<"2", "0">> }

\* 'doğum' in header_text or 'doğ.' in header_text
TestHeaderMatches(header_text) ==
    Contains(header_text, txt_dogum) \/ Contains(header_text, txt_dog)

\* The body of the test's loop over the infobox rows for one row.
TestAfterInfoboxRow(birth_info, row) ==
    IF row.th = None THEN birth_info
    ELSE IF ~TestHeaderMatches(Lower(Strip(row.th[1]))) \/ row.td = None
    THEN birth_info
    ELSE With(Strip(CellText(row.td[1])), LAMBDA value_text :
        [birth_year  |->
            With(YearSearch(value_text, TestYearPrefixes), LAMBDA year_match :
                IF year_match # None THEN year_match ELSE birth_info.birth_year),
         birth_date  |-> Some(value_text),
         birth_place |->
            With(Locations(row.td[1]), LAMBDA locations :
                IF locations # <<>> THEN Some(JoinComma(locations))
                ELSE birth_info.birth_place)])

RECURSIVE TestAfterInfoboxRows(_, _)
TestAfterInfoboxRows(birth_info, rows) ==
    IF rows = <<>> THEN birth_info
    ELSE TestAfterInfoboxRows(TestAfterInfoboxRow(birth_info, Head(rows)), Tail(rows))

\* extract_birth_info(soup) of the test script, for a page that was fetched
test_extract_birth_info(soup) ==
    IF soup[1].infobox = None THEN NoBirthInfo
    ELSE TestAfterInfoboxRows(NoBirthInfo, soup[1].infobox[1])

TestInit ==
    /\ t_soup \in { Some(page) : page \in Pages }
    /\ t_info = None
    /\ t_scraper_info = None

\* the test script: birth_info = extract_birth_info(soup)
TestExtractBirthInfo ==
    /\ t_info = None
    /\ t_info' = Some(test_extract_birth_info(t_soup))
    /\ UNCHANGED <<t_soup, t_scraper_info, notTest>>

\* the scraper on the same page: birth_info = extract_birth_info(soup)
ScraperExtractBirthInfo ==
    /\ t_scraper_info = None
    /\ t_scraper_info' = Some(extract_birth_info(t_soup))
    /\ UNCHANGED <<t_soup, t_info, notTest>>

InitTest == TestInit /\ IdleButTest
NextTest == TestExtractBirthInfo \/ ScraperExtractBirthInfo
SpecTest == InitTest /\ [][NextTest]_vars

\* C17: for every page the extract_birth_info of the test script returns the
\* birth_year, birth_place and birth_date that the extract_birth_info of the
\* scraper returns.
C17_TestMatchesScraper ==
    (t_info # None /\ t_scraper_info # None) =>
        /\ t_info[1].birth_year = t_scraper_info[1].birth_year
        /\ t_info[1].birth_place = t_scraper_info[1].birth_place
        /\ t_info[1].birth_date = t_scraper_info[1].birth_date

=============================================================================
